---- MODULE Spec2Model ----
(***************************************************************************)
(* Google Keep Sync for Home Assistant: the Sync Engine                    *)
(* (GoogleKeepAPI.async_sync_data), the retried remote sync, and the       *)
(* Reconciliation Coordinator's tick                                       *)
(* (GoogleKeepSyncCoordinator._async_update_data).                         *)
(*                                                                         *)
(* Python objects are references: the gkeepapi List nodes that             *)
(* async_sync_data returns are the very objects the Keep client keeps in   *)
(* its node table and updates in place on sync().  The model therefore     *)
(* keeps a heap of list objects addressed by handles; coordinator.data and *)
(* api._last_synced are sequences of handles.  A forced full resync        *)
(* (sync(True)) clears the node table and builds new objects.              *)
(***************************************************************************)
EXTENDS Integers, Sequences, FiniteSets, TLC

VARIABLES
    remote,        \* the account on the server: list id -> [title, items]
    keepNodes,     \* Keep client node table: list id -> handle (what get() resolves)
    heap,          \* list objects: handle -> [id, title, items, dirty]
    keepGen,       \* number of times the node table was cleared (object allocation)
    authenticated, \* GoogleKeepAPI._authenticated
    lastSynced,    \* GoogleKeepAPI._last_synced (handles)
    data,          \* coordinator.data: [isNone, lists (handles)]
    config,        \* config_entry.data
    registry,      \* entity registry: list id (unique id google_keep_sync.list.<id>) -> entry
    userNamed,     \* coordinator._user_named_entities (entity ids)
    edits,         \* how many changes the server and the user may still make
    goodLists,     \* history: the lists returned by the last pass that did not fail
    last,          \* observation of the last operation (what it returned, fired, removed)
    diffIn,        \* inputs and result of the last _get_new_items_added evaluation
    probe          \* inputs and result of the last call of a function taken on its own

vars == <<remote, keepNodes, heap, keepGen, authenticated, lastSynced, data,
          config, registry, userNamed, edits,
          goodLists, last, diffIn, probe>>

----------------------------------------------------------------------------
(* Bounds of the model *)

\* items a remote list may hold
MaxItems == 2
\* how many times the Keep node table may be cleared by a forced full resync
MaxGen == 1

\* the list ids of the model, and the lists the account starts with
ListIds == {"L1", "L2", "L3"}
TwoLists == {"L1", "L2"}
\* list titles on the server
Titles == {<<"T">>, <<"U">>}
\* item texts written on the server
Texts == {<<"b">>, <<"A">>}

\* changes made outside the integration (in the Keep app, by the user) in a run
MaxEdits == 1
\* the furthest call at which an injected registry or bus failure is raised
MaxFaultAt == 1

\* exponential_backoff(max_retries=5, ...) on _sync_with_google_keep
MaxRetries == 5
\* the largest max_retries drawn for a decorated function
MaxWrapperRetries == 3

----------------------------------------------------------------------------
(* Generic sequence helpers *)

Range(s) == {s[i] : i \in 1..Len(s)}

\* a python list comprehension over the positions 1..n of a sequence
Map(n, F(_)) == IF n = 0 THEN <<>> ELSE [i \in 1..n |-> F(i)]

\* Body applied to the value of e: a local variable, assigned once
With(e, Body(_)) == CHOOSE y \in {Body(x) : x \in {e}} : TRUE

\* the function with no argument (an empty dict)
EmptyMap == [x \in {} |-> x]

RECURSIVE SeqFilter(_, _)
\* the subsequence of s whose elements are in the set keep, order kept
SeqFilter(s, keep) ==
    IF s = <<>> THEN <<>>
    ELSE IF Head(s) \in keep THEN <<Head(s)>> \o SeqFilter(Tail(s), keep)
         ELSE SeqFilter(Tail(s), keep)

\* the injective sequences over a set (python lists without repetition)
Perms(S) ==
    {s \in UNION {[1..n -> S] : n \in 0..Cardinality(S)} :
        \A i, j \in 1..Len(s) : i # j => s[i] # s[j]}

----------------------------------------------------------------------------
(* Text: a python str is a sequence of one-character strings *)

CharCode(c) ==
    CASE c = " " -> 32
      [] c = "A" -> 65
      [] c = "B" -> 66
      [] c = "P" -> 80
      [] c = "T" -> 84
      [] c = "U" -> 85
      [] c = "a" -> 97
      [] c = "b" -> 98
      [] c = "p" -> 112
      [] c = "t" -> 116
      [] c = "u" -> 117

LowerChar(c) ==
    CASE c = "A" -> "a" [] c = "B" -> "b" [] c = "P" -> "p"
      [] c = "T" -> "t" [] c = "U" -> "u" [] OTHER -> c

UpperChar(c) ==
    CASE c = "a" -> "A" [] c = "b" -> "B" [] c = "p" -> "P"
      [] c = "t" -> "T" [] c = "u" -> "U" [] OTHER -> c

IsCased(c) == c # " "

\* str.lower()
StrLower(t) == LET F(i) == LowerChar(t[i]) IN Map(Len(t), F)
\* str.upper()
StrUpper(t) == LET F(i) == UpperChar(t[i]) IN Map(Len(t), F)
\* str.capitalize(): first character upper-cased, the rest lower-cased
StrCapitalize(t) ==
    LET F(i) == IF i = 1 THEN UpperChar(t[i]) ELSE LowerChar(t[i]) IN Map(Len(t), F)
\* str.title(): a cased character is upper-cased when it follows an uncased
\* character (or starts the text) and lower-cased otherwise
StrTitle(t) ==
    LET F(i) == IF i > 1 /\ IsCased(t[i - 1]) THEN LowerChar(t[i]) ELSE UpperChar(t[i])
    IN Map(Len(t), F)

\* str.strip() for the blank character
RECURSIVE StripLeft(_)
StripLeft(t) == IF t # <<>> /\ Head(t) = " " THEN StripLeft(Tail(t)) ELSE t
RECURSIVE StripRight(_)
StripRight(t) ==
    IF t # <<>> /\ t[Len(t)] = " " THEN StripRight(SubSeq(t, 1, Len(t) - 1)) ELSE t
StrStrip(t) == StripRight(StripLeft(t))

RECURSIVE StrLeq(_, _)
\* python's a <= b on str: lexicographic by code point
StrLeq(a, b) ==
    IF a = <<>> THEN TRUE
    ELSE IF b = <<>> THEN FALSE
    ELSE IF CharCode(Head(a)) < CharCode(Head(b)) THEN TRUE
    ELSE IF CharCode(Head(a)) > CharCode(Head(b)) THEN FALSE
    ELSE StrLeq(Tail(a), Tail(b))

\* a transform whose sentence mode lower-cases the first character when it is
\* upper-case and upper-cases it otherwise
change_case_toggling(text, case_type) ==
    CASE case_type = "upper" -> StrUpper(text)
      [] case_type = "lower" -> StrLower(text)
      [] case_type = "sentence" ->
             IF text # <<>> /\ Head(text) = UpperChar(Head(text))
             THEN StrLower(text) ELSE StrCapitalize(text)
      [] case_type = "title" -> StrTitle(text)
      [] OTHER -> text

\* GoogleKeepAPI.change_case
change_case(text, case_type) ==
    CASE case_type = "upper" -> StrUpper(text)
      [] case_type = "lower" -> StrLower(text)
      [] case_type = "sentence" -> StrCapitalize(text)
      [] case_type = "title" -> StrTitle(text)
      [] OTHER -> text

\* GoogleKeepAPI.change_list_case: the items after the rewrite
change_list_case_items(items, case_type) ==
    LET F(i) == [items[i] EXCEPT !.text = change_case(items[i].text, case_type)]
    IN Map(Len(items), F)

\* GoogleKeepAPI.change_list_case: its return value
change_list_case(items, case_type) ==
    \E i \in 1..Len(items) : items[i].text # change_case(items[i].text, case_type)

\* a sortedness test that takes texts equal without their case for unsorted
is_list_sorted_strict(items) ==
    \A i \in 1..(Len(items) - 1) :
        /\ StrLeq(StrLower(items[i].text), StrLower(items[i + 1].text))
        /\ StrLower(items[i].text) # StrLower(items[i + 1].text)

\* GoogleKeepAPI.is_list_sorted
is_list_sorted(items) ==
    \A i \in 1..(Len(items) - 1) :
        StrLeq(StrLower(items[i].text), StrLower(items[i + 1].text))

RECURSIVE InsertSorted(_, _)
\* insert x after every element whose key is <= x's key (keeps sorted() stable)
InsertSorted(sorted, x) ==
    IF sorted = <<>> THEN <<x>>
    ELSE IF StrLeq(StrLower(Head(sorted).text), StrLower(x.text))
         THEN <<Head(sorted)>> \o InsertSorted(Tail(sorted), x)
         ELSE <<x>> \o sorted

\* a sort into descending order
sort_items_descending(items) ==
    LET RECURSIVE S(_)
        S(s) == IF s = <<>> THEN <<>>
                ELSE InsertSorted(S(SubSeq(s, 1, Len(s) - 1)), s[Len(s)])
        F(i) == S(items)[Len(items) + 1 - i]
    IN Map(Len(items), F)

RECURSIVE sort_items(_)
\* keep_list.sort_items(lambda item: item.text.lower()): all items, stable
sort_items(items) ==
    IF items = <<>> THEN <<>>
    ELSE InsertSorted(sort_items(SubSeq(items, 1, Len(items) - 1)), items[Len(items)])

\* keep_list.unchecked
Unchecked(items) ==
    LET RECURSIVE F(_)
        F(s) == IF s = <<>> THEN <<>>
                ELSE IF ~Head(s).checked THEN <<Head(s)>> \o F(Tail(s))
                     ELSE F(Tail(s))
    IN F(items)

----------------------------------------------------------------------------
(* The Keep client (gkeepapi.Keep) as the repository uses it *)

\* a list object of the client: build it from the server's record of list l
NodeOf(l, rl) == [id |-> l, title |-> rl.title, items |-> rl.items, dirty |-> FALSE]

\* Keep._clear(), the first step of sync(True): the node table is emptied; the
\* nodes built afterwards are new objects
KeepClear(w) ==
    [w EXCEPT !.keepNodes = EmptyMap, !.keepGen = w.keepGen + 1]

\* Keep.sync() that succeeds: locally changed (dirty) nodes are sent to the
\* server, then the node table is brought to the server's state, existing
\* node objects being updated in place
KeepSync(w0) ==
    LET Pull(w, pushed) ==
            LET handle == [l \in DOMAIN w.remote |->
                             IF l \in DOMAIN w.keepNodes THEN w.keepNodes[l]
                             ELSE <<l, w.keepGen>>]
                fresh == {<<l, w.keepGen>> : l \in DOMAIN w.remote \ DOMAIN w.keepNodes}
                         \cup {w.keepNodes[l] : l \in DOMAIN w.remote \cap DOMAIN w.keepNodes}
            IN [w EXCEPT
                  !.remote = pushed,
                  !.keepNodes = handle,
                  !.heap = [h \in DOMAIN w.heap \cup fresh |->
                              IF h \in fresh THEN NodeOf(h[1], pushed[h[1]])
                              ELSE w.heap[h]]]
        Push(w) ==
            LET Pulled(pushed) == Pull(w, pushed)
            IN With([l \in DOMAIN w.remote |->
                       IF l \in DOMAIN w.keepNodes /\ w.heap[w.keepNodes[l]].dirty
                       THEN [title |-> w.heap[w.keepNodes[l]].title,
                             items |-> w.heap[w.keepNodes[l]].items]
                       ELSE w.remote[l]],
                    Pulled)
    IN With(w0, Push)

\* outcomes of one attempt of _sync_with_google_keep:
\*   ok          sync() succeeds
\*   err         sync() raises an ordinary exception
\*   resync_ok   sync() raises ResyncRequiredException, sync(True) succeeds
\*   resync_err  sync() raises ResyncRequiredException, sync(True) raises
AttemptOutcomes == {"ok", "err", "resync_ok", "resync_err"}

\* the decorator's arguments (api.py 414-419)
BaseDelay == 1
BackoffFactor == 3

RECURSIVE Pow(_, _)
\* python's b ** k for integers
Pow(b, k) == IF k = 0 THEN 1 ELSE b * Pow(b, k - 1)

\* an attempt without the handler of ResyncRequiredException: one sync()
AttemptCallsNoResync(outcome) == <<"sync">>

\* the calls one attempt makes on the client: sync(), and sync(True) in the
\* handler of ResyncRequiredException
AttemptCalls(outcome) ==
    IF outcome \in {"resync_ok", "resync_err"} THEN <<"sync", "sync_full">>
    ELSE <<"sync">>

\* whether the attempt returns: its last call on the client did not raise
AttemptOk(outcome) == outcome \in {"ok", "resync_ok"}

\* the body of _sync_with_google_keep for one attempt: [w, ok]
SyncAttempt(w, outcome) ==
    CASE outcome = "ok" -> [w |-> KeepSync(w), ok |-> TRUE]
      [] outcome = "err" -> [w |-> w, ok |-> FALSE]
      [] outcome = "resync_ok" -> [w |-> KeepSync(KeepClear(w)), ok |-> TRUE]
      [] outcome = "resync_err" -> [w |-> KeepClear(w), ok |-> FALSE]

RECURSIVE BackoffFrom(_, _, _)
\* a wrapper that goes on to the next attempt after one that succeeded
BackoffFromPastSuccess(w, script, attempt) ==
    IF attempt >= MaxRetries
    THEN [w |-> w, ok |-> TRUE, attempts |-> attempt, error |-> 0]
    ELSE LET After(r) ==
                 IF attempt < MaxRetries - 1
                 THEN BackoffFrom(r.w, script, attempt + 1)
                 ELSE [w |-> r.w, ok |-> r.ok, attempts |-> attempt + 1,
                       error |-> IF r.ok THEN 0 ELSE attempt + 1]
         IN With(SyncAttempt(w, script[attempt + 1]), After)

\* exponential_backoff.wrapper, from the attempt with zero-based index `attempt`:
\* return at the first attempt that succeeds, re-raise after the last one.
\* [w, ok, attempts, error]: error is the attempt (from 1) whose exception is
\* raised to the caller, 0 for none
BackoffFrom(w, script, attempt) ==
    IF attempt >= MaxRetries
    THEN [w |-> w, ok |-> TRUE, attempts |-> attempt, error |-> 0]
    ELSE LET After(r) ==
                 IF r.ok THEN [w |-> r.w, ok |-> TRUE, attempts |-> attempt + 1,
                               error |-> 0]
                 ELSE IF attempt < MaxRetries - 1
                      THEN BackoffFrom(r.w, script, attempt + 1)
                      ELSE [w |-> r.w, ok |-> FALSE, attempts |-> attempt + 1,
                            error |-> attempt + 1]
         IN With(SyncAttempt(w, script[attempt + 1]), After)

\* an entry of the log of a retried call: the wrapped function is called
\* ("call", with the zero-based attempt), it calls sync() ("sync") or
\* sync(True) ("sync_full"), the wrapper sleeps ("sleep", with the delay)
Ev(e, n) == [ev |-> e, n |-> n]

\* the log entries of attempt `attempt`, whose body made the calls `calls`
AttemptLog(attempt, calls) ==
    LET F(i) == Ev(calls[i], attempt)
    IN <<Ev("call", attempt)>> \o Map(Len(calls), F)

RECURSIVE BackoffLog(_, _)
\* a wrapper that sleeps after every attempt that raised, the last included
BackoffLogSleepingLast(script, attempt) ==
    IF attempt >= MaxRetries THEN <<>>
    ELSE AttemptLog(attempt, AttemptCalls(script[attempt + 1]))
         \o (IF AttemptOk(script[attempt + 1]) THEN <<>>
             ELSE <<Ev("sleep", BaseDelay * Pow(BackoffFactor, attempt))>>
                  \o (IF attempt < MaxRetries - 1
                      THEN BackoffLog(script, attempt + 1) ELSE <<>>))

\* exponential_backoff.wrapper, from the attempt with zero-based index
\* `attempt`: what it calls and how long it sleeps, in order.  After an attempt
\* that raised it sleeps base_delay * backoff_factor ** attempt and goes on,
\* unless the attempt was the last
BackoffLog(script, attempt) ==
    IF attempt >= MaxRetries THEN <<>>
    ELSE AttemptLog(attempt, AttemptCalls(script[attempt + 1]))
         \o (IF AttemptOk(script[attempt + 1]) THEN <<>>
             ELSE IF attempt < MaxRetries - 1
                  THEN <<Ev("sleep", BaseDelay * Pow(BackoffFactor, attempt))>>
                       \o BackoffLog(script, attempt + 1)
                  ELSE <<>>)

\* the decorated GoogleKeepAPI._sync_with_google_keep
SyncWithGoogleKeep(w, script) == BackoffFrom(w, script, 0)

----------------------------------------------------------------------------
(* The Sync Engine: GoogleKeepAPI.async_sync_data *)

\* an entry of the log of a pass: what the pass does (ev), and to which list
\* (l, "" for none), from the return of the retried sync on.  "get", "case",
\* "sort", "append", "deleted": the loop over lists_to_sync; "extra_sync":
\* the additional sync(); "cache": _last_synced is assigned; "fallback": the
\* except branch
Op(e, l) == [ev |-> e, l |-> l]

\* an iteration in which a sort does not count as a change
ProcessListSortUnflagged(acc, list_id, sort_lists, case_type) ==
    IF list_id \notin DOMAIN acc.w.keepNodes
    THEN [acc EXCEPT !.deleted = Append(acc.deleted, list_id),
                     !.log = acc.log \o <<Op("get", list_id), Op("deleted", list_id)>>]
    ELSE LET h == acc.w.keepNodes[list_id]
             obj == acc.w.heap[h]
             cased == IF case_type # "no_change"
                      THEN change_list_case_items(obj.items, case_type)
                      ELSE obj.items
             caseChanged == case_type # "no_change"
                            /\ change_list_case(obj.items, case_type)
             sortNeeded == sort_lists /\ ~is_list_sorted(Unchecked(cased))
             final == IF sortNeeded THEN sort_items(cased) ELSE cased
             changed == caseChanged
         IN [acc EXCEPT
               !.w.heap[h] = [obj EXCEPT !.items = final,
                                         !.dirty = obj.dirty \/ changed],
               !.changed = acc.changed \/ changed,
               !.caseCalls = acc.caseCalls + (IF case_type # "no_change" THEN 1 ELSE 0),
               !.sortCalls = acc.sortCalls + (IF sortNeeded THEN 1 ELSE 0),
               !.synced = Append(acc.synced, h),
               !.log = acc.log \o <<Op("get", list_id)>>
                       \o (IF case_type # "no_change"
                           THEN <<Op("case", list_id)>> ELSE <<>>)
                       \o (IF sortNeeded THEN <<Op("sort", list_id)>> ELSE <<>>)
                       \o <<Op("append", list_id)>>]

\* one iteration of the loop over lists_to_sync (api.py 445-482)
ProcessList(acc, list_id, sort_lists, case_type) ==
    IF list_id \notin DOMAIN acc.w.keepNodes
    THEN [acc EXCEPT !.deleted = Append(acc.deleted, list_id),
                     !.log = acc.log \o <<Op("get", list_id), Op("deleted", list_id)>>]
    ELSE LET h == acc.w.keepNodes[list_id]
             obj == acc.w.heap[h]
             cased == IF case_type # "no_change"
                      THEN change_list_case_items(obj.items, case_type)
                      ELSE obj.items
             caseChanged == case_type # "no_change"
                            /\ change_list_case(obj.items, case_type)
             sortNeeded == sort_lists /\ ~is_list_sorted(Unchecked(cased))
             final == IF sortNeeded THEN sort_items(cased) ELSE cased
             changed == caseChanged \/ sortNeeded
         IN [acc EXCEPT
               !.w.heap[h] = [obj EXCEPT !.items = final,
                                         !.dirty = obj.dirty \/ changed],
               !.changed = acc.changed \/ changed,
               !.caseCalls = acc.caseCalls + (IF case_type # "no_change" THEN 1 ELSE 0),
               !.sortCalls = acc.sortCalls + (IF sortNeeded THEN 1 ELSE 0),
               !.synced = Append(acc.synced, h),
               !.log = acc.log \o <<Op("get", list_id)>>
                       \o (IF case_type # "no_change"
                           THEN <<Op("case", list_id)>> ELSE <<>>)
                       \o (IF sortNeeded THEN <<Op("sort", list_id)>> ELSE <<>>)
                       \o <<Op("append", list_id)>>]

RECURSIVE ProcessLists(_, _, _, _)
\* a loop that stops at the first id that does not resolve
ProcessListsStopping(acc, ids, sort_lists, case_type) ==
    IF ids = <<>> \/ Head(ids) \notin DOMAIN acc.w.keepNodes THEN acc
    ELSE LET Rest(next) == ProcessLists(next, Tail(ids), sort_lists, case_type)
         IN With(ProcessList(acc, Head(ids), sort_lists, case_type), Rest)

\* the loop of async_sync_data over lists_to_sync
ProcessLists(acc, ids, sort_lists, case_type) ==
    IF ids = <<>> THEN acc
    ELSE LET Rest(next) == ProcessLists(next, Tail(ids), sort_lists, case_type)
         IN With(ProcessList(acc, Head(ids), sort_lists, case_type), Rest)

\* a fallback that forgets the cached lists
SyncFallbackEmpty(w0, w) ==
    [w |-> w, lists |-> <<>>, deleted |-> <<>>, failed |-> TRUE,
     extraSyncs |-> 0, sortCalls |-> 0, exhausted |-> FALSE, log |-> <<>>]

\* a fallback that reports the cached lists the node table no longer resolves
\* as deleted
SyncFallbackDeleting(w0, w) ==
    [w |-> w, lists |-> w0.lastSynced,
     deleted |-> LET F(i) == w.heap[w0.lastSynced[i]].id
                 IN SeqFilter(Map(Len(w0.lastSynced), F), ListIds \ DOMAIN w.keepNodes),
     failed |-> TRUE, extraSyncs |-> 0, sortCalls |-> 0, exhausted |-> FALSE,
     log |-> <<>>]

\* the except branch of async_sync_data (api.py 496-498)
SyncFallback(w0, w) ==
    [w |-> w, lists |-> w0.lastSynced, deleted |-> <<>>, failed |-> TRUE,
     extraSyncs |-> 0, sortCalls |-> 0, exhausted |-> FALSE, log |-> <<>>]

\* async_sync_data past its authentication guard.  inp.script are the outcomes
\* of the attempts of the retried sync, inp.extra the outcome of the additional
\* sync() forced after local changes ("ok", "err" for an ordinary exception,
\* "resync" for ResyncRequiredException: the call at line 488 is the client's
\* sync, not the retried _sync_with_google_keep, so both exceptions reach the
\* except branch).  Result: the new world, the returned (lists, deleted ids),
\* whether the pass fell back to the cached lists, and the log of the pass.
async_sync_data(w, lists_to_sync, sort_lists, case_type, inp) ==
    LET Finish(acc) ==
            IF acc.changed /\ inp.extra # "ok"
            THEN [SyncFallback(w, acc.w) EXCEPT
                    !.log = acc.log \o <<Op("extra_sync", ""), Op("fallback", "")>>]
            ELSE [w |-> [(IF acc.changed THEN KeepSync(acc.w) ELSE acc.w)
                            EXCEPT !.lastSynced = acc.synced],
                  lists |-> acc.synced, deleted |-> acc.deleted,
                  failed |-> FALSE,
                  extraSyncs |-> IF acc.changed THEN 1 ELSE 0,
                  sortCalls |-> acc.sortCalls, exhausted |-> FALSE,
                  log |-> acc.log
                          \o (IF acc.changed THEN <<Op("extra_sync", "")>> ELSE <<>>)
                          \o <<Op("cache", "")>>]
        Loop(first) ==
            IF ~first.ok
            THEN [SyncFallback(w, first.w) EXCEPT
                    !.exhausted = TRUE,
                    !.log = <<Op("fallback", "")>>]
            ELSE With(ProcessLists(
                          [w |-> first.w, synced |-> <<>>, deleted |-> <<>>,
                           changed |-> FALSE, caseCalls |-> 0, sortCalls |-> 0,
                           log |-> <<>>],
                          lists_to_sync, sort_lists, case_type),
                      Finish)
    IN With(SyncWithGoogleKeep(w, inp.script), Loop)

----------------------------------------------------------------------------
(* The Reconciliation Coordinator: GoogleKeepSyncCoordinator *)

\* python None for an entity id, and the entity id registered for list l
NoEntityId == <<>>
EntityIdOf(l) == <<"todo", l>>

\* entity_registry.async_get_entity_id(Platform.TODO, DOMAIN, "google_keep_sync.list.<l>")
async_get_entity_id(reg, l) == IF l \in DOMAIN reg THEN reg[l].entity_id ELSE NoEntityId

\* _parse_gkeep_data_dict: the snapshot of self.data (None read as no list),
\* an ordered dict from list id to (name, unchecked items)
SnapItems(items) ==
    LET un == Unchecked(items)
        F(i) == [id |-> un[i].id, summary |-> un[i].text, checked |-> un[i].checked]
    IN Map(Len(un), F)

ParseData(d, hp) ==
    LET F(k) == [id |-> hp[d.lists[k]].id, name |-> hp[d.lists[k]].title,
                 items |-> SnapItems(hp[d.lists[k]].items)]
    IN Map(Len(d.lists), F)

\* dict lookups on a snapshot
SnapKeys(snap) == {snap[k].id : k \in 1..Len(snap)}
SnapGet(snap, id) == snap[CHOOSE k \in 1..Len(snap) : snap[k].id = id]
ItemKeys(entry) == {entry.items[i].id : i \in 1..Len(entry.items)}

RECURSIVE NewItemsOfList(_, _, _, _)
\* an inner loop that reports every item of the updated list
NewItemsOfListAll(items, original_list, list_id, reg) ==
    IF items = <<>> THEN <<>>
    ELSE <<[item |-> Head(items).summary,
            entity_id |-> async_get_entity_id(reg, list_id)]>>
         \o NewItemsOfList(Tail(items), original_list, list_id, reg)

\* an inner loop that reports only items of lists with a registered entity
NewItemsOfListRegistered(items, original_list, list_id, reg) ==
    IF items = <<>> THEN <<>>
    ELSE (IF Head(items).id \notin ItemKeys(original_list) /\ list_id \in DOMAIN reg
          THEN <<[item |-> Head(items).summary,
                  entity_id |-> async_get_entity_id(reg, list_id)]>>
          ELSE <<>>)
         \o NewItemsOfList(Tail(items), original_list, list_id, reg)

\* the inner loop of _get_new_items_added over one updated list (163-188)
NewItemsOfList(items, original_list, list_id, reg) ==
    IF items = <<>> THEN <<>>
    ELSE (IF Head(items).id \notin ItemKeys(original_list)
          THEN <<[item |-> Head(items).summary,
                  entity_id |-> async_get_entity_id(reg, list_id)]>>
          ELSE <<>>)
         \o NewItemsOfList(Tail(items), original_list, list_id, reg)

RECURSIVE GetNewItemsAdded(_, _, _)
\* a diff that reads a list missing from the original snapshot as an empty one
GetNewItemsAddedNewLists(original_lists, updated_lists, reg) ==
    IF updated_lists = <<>> THEN <<>>
    ELSE NewItemsOfList(Head(updated_lists).items,
                        IF Head(updated_lists).id \in SnapKeys(original_lists)
                        THEN SnapGet(original_lists, Head(updated_lists).id)
                        ELSE [id |-> Head(updated_lists).id, name |-> <<>>, items |-> <<>>],
                        Head(updated_lists).id, reg)
         \o GetNewItemsAdded(original_lists, Tail(updated_lists), reg)

\* _get_new_items_added(original_lists, updated_lists)
GetNewItemsAdded(original_lists, updated_lists, reg) ==
    IF updated_lists = <<>> THEN <<>>
    ELSE (IF Head(updated_lists).id \notin SnapKeys(original_lists) THEN <<>>
          ELSE NewItemsOfList(Head(updated_lists).items,
                              SnapGet(original_lists, Head(updated_lists).id),
                              Head(updated_lists).id, reg))
         \o GetNewItemsAdded(original_lists, Tail(updated_lists), reg)

RECURSIVE NewItemListIds(_, _)
\* the updated_list_id of every entry _get_new_items_added appends, in order
NewItemListIds(original_lists, updated_lists) ==
    IF updated_lists = <<>> THEN <<>>
    ELSE (IF Head(updated_lists).id \notin SnapKeys(original_lists) THEN <<>>
          ELSE LET new == SeqFilter(
                              [i \in 1..Len(Head(updated_lists).items) |->
                                  Head(updated_lists).items[i].id],
                              ItemKeys(Head(updated_lists))
                              \ ItemKeys(SnapGet(original_lists, Head(updated_lists).id)))
                   F(i) == Head(updated_lists).id
               IN Map(Len(new), F))
         \o NewItemListIds(original_lists, Tail(updated_lists))

RECURSIVE NewItemIds(_, _)
\* <<updated_list_id, updated_list_item_id>> of every entry
\* _get_new_items_added appends, in order
NewItemIds(original_lists, updated_lists) ==
    IF updated_lists = <<>> THEN <<>>
    ELSE (IF Head(updated_lists).id \notin SnapKeys(original_lists) THEN <<>>
          ELSE LET new == SeqFilter(
                              [i \in 1..Len(Head(updated_lists).items) |->
                                  Head(updated_lists).items[i].id],
                              ItemKeys(Head(updated_lists))
                              \ ItemKeys(SnapGet(original_lists, Head(updated_lists).id)))
                   F(i) == <<Head(updated_lists).id, new[i]>>
               IN Map(Len(new), F))
         \o NewItemIds(original_lists, Tail(updated_lists))

\* the name without the strip
NewNameUntrimmed(prefix, title) == prefix \o <<" ">> \o title

\* new_name = f"{list_prefix} {gkeep_list.title}".strip()
NewName(prefix, title) ==
    StrStrip(prefix \o <<" ">> \o title)

RECURSIVE UpdateEntityNames(_, _, _, _, _)
\* a reconciliation that does not look at the user-set name
UpdateEntityNamesIgnoringUser(acc, synced, hp, prefix, fault) ==
    IF synced = <<>> THEN acc
    ELSE IF fault = 1 THEN [acc EXCEPT !.raised = TRUE]
    ELSE LET l == hp[Head(synced)].id
             reg == acc.registry
             new_name == NewName(prefix, hp[Head(synced)].title)
             next ==
               IF l \notin DOMAIN reg THEN acc
               ELSE IF reg[l].original_name # new_name
                    THEN [acc EXCEPT !.registry[l].original_name = new_name,
                                     !.writes = Append(@, reg[l].entity_id)]
               ELSE acc
             Rest(a) == UpdateEntityNames(a, Tail(synced), hp, prefix,
                                          IF fault = 0 THEN 0 ELSE fault - 1)
         IN With(next, Rest)

\* _update_entity_names: acc = [registry, userNamed, raised, writes]; the
\* registry raises while the list at position fault is processed (0: never)
UpdateEntityNames(acc, synced, hp, prefix, fault) ==
    IF synced = <<>> THEN acc
    ELSE IF fault = 1 THEN [acc EXCEPT !.raised = TRUE]
    ELSE LET l == hp[Head(synced)].id
             reg == acc.registry
             new_name == NewName(prefix, hp[Head(synced)].title)
             next ==
               IF l \notin DOMAIN reg THEN acc
               ELSE IF reg[l].name # <<>>
                    THEN [acc EXCEPT !.userNamed = @ \cup {reg[l].entity_id}]
               ELSE IF reg[l].original_name # new_name
                    THEN [acc EXCEPT !.registry[l].original_name = new_name,
                                     !.writes = Append(@, reg[l].entity_id)]
               ELSE acc
             Rest(a) == UpdateEntityNames(a, Tail(synced), hp, prefix,
                                          IF fault = 0 THEN 0 ELSE fault - 1)
         IN With(next, Rest)

RECURSIVE RemoveDeletedEntities(_, _, _)
\* a removal that leaves every entity registered
RemoveDeletedEntitiesNone(acc, deleted_list_ids, fault) == acc

\* _remove_deleted_entities: acc = [registry, removed, raised]; async_remove
\* raises at its fault-th call (0: never)
RemoveDeletedEntities(acc, deleted_list_ids, fault) ==
    IF deleted_list_ids = <<>> THEN acc
    ELSE LET l == Head(deleted_list_ids)
         IN IF l \notin DOMAIN acc.registry
            THEN RemoveDeletedEntities(acc, Tail(deleted_list_ids), fault)
            ELSE IF fault = 1 THEN [acc EXCEPT !.raised = TRUE]
            ELSE LET Rest(a) == RemoveDeletedEntities(
                                    a, Tail(deleted_list_ids),
                                    IF fault = 0 THEN 0 ELSE fault - 1)
                 IN With([acc EXCEPT
                            !.registry = [x \in DOMAIN acc.registry \ {l} |->
                                            acc.registry[x]],
                            !.removed = Append(@, acc.registry[l].entity_id)],
                         Rest)

\* a configuration update that drops only the first deleted id
UpdatedListsToSyncFirst(lists_to_sync, deleted_list_ids) ==
    SeqFilter(lists_to_sync, Range(lists_to_sync) \ {Head(deleted_list_ids)})

\* the configuration update of the deletion path (82-93)
UpdatedListsToSync(lists_to_sync, deleted_list_ids) ==
    SeqFilter(lists_to_sync, Range(lists_to_sync) \ Range(deleted_list_ids))

\* _notify_new_items: the events fired; bus.async_fire raises at its fault-th
\* call (0: never)
NotifyNewItems(new_items, fault) ==
    IF fault = 0 \/ fault > Len(new_items)
    THEN [events |-> new_items, raised |-> FALSE]
    ELSE [events |-> SubSeq(new_items, 1, fault - 1), raised |-> TRUE]

----------------------------------------------------------------------------
(* One tick: GoogleKeepSyncCoordinator._async_update_data *)

World == [remote |-> remote, keepNodes |-> keepNodes, heap |-> heap,
          keepGen |-> keepGen, lastSynced |-> lastSynced]

\* outcomes of the retried sync that the model draws: per attempt, 1..MaxRetries
Scripts ==
    { [i \in 1..MaxRetries |-> "ok"],
      [i \in 1..MaxRetries |-> IF i = 1 THEN "err" ELSE "ok"],
      [i \in 1..MaxRetries |-> "resync_ok"],
      [i \in 1..MaxRetries |-> IF i = 1 THEN "resync_err" ELSE "ok"],
      [i \in 1..MaxRetries |-> "err"],
      [i \in 1..MaxRetries |-> IF i = 1 THEN "resync_err" ELSE "err"] }

SyncInputs ==
    {[script |-> s, extra |-> "ok"] : s \in Scripts}
    \cup {[script |-> [i \in 1..MaxRetries |-> "ok"], extra |-> "err"]}

\* the retried sync succeeds at its first attempt, without or with a full resync
CleanInputs ==
    {[script |-> [i \in 1..MaxRetries |-> o], extra |-> "ok"] : o \in {"ok", "resync_ok"}}

\* where a collaborator of the tick raises: the entity registry during name
\* reconciliation ("names") or entity removal ("remove"), the configuration
\* update ("update_entry"), the event bus ("fire")
NoFault == [step |-> "none", at |-> 0]
Faults ==
    {NoFault, [step |-> "update_entry", at |-> 1]}
    \cup {[step |-> st, at |-> k] : st \in {"names", "remove", "fire"}, k \in 1..MaxFaultAt}

\* what the collaborators of a tick do: every outcome of the syncs without an
\* injected failure, and every injected failure with the syncs that succeed
TickInputs ==
    {[inp |-> i, fault |-> NoFault] : i \in SyncInputs}
    \cup {[inp |-> i, fault |-> f] : i \in CleanInputs, f \in Faults \ {NoFault}}

FaultAt(fault, step) == IF fault.step = step THEN fault.at ELSE 0

\* lines 68-70: the Sync Engine call
TickSync(inp) ==
    LET Returned(r) ==
            [w |-> r.w, synced_lists |-> r.lists, deleted_list_ids |-> r.deleted,
             failed |-> IF ~r.failed THEN "no" ELSE IF r.exhausted THEN "sync" ELSE "extra",
             registry |-> registry, userNamed |-> userNamed, config |-> config,
             writes |-> <<>>, removed |-> <<>>, events |-> <<>>, new_items |-> <<>>,
             event_lists |-> <<>>, event_ids |-> <<>>, raised |-> "none"]
    IN With(async_sync_data(World, config.lists_to_sync, config.list_auto_sort,
                            config.list_item_case, inp),
            Returned)

\* line 74: name reconciliation
TickNames(ts, fault) ==
    LET Done(n) ==
            [ts EXCEPT !.registry = n.registry, !.userNamed = n.userNamed,
                       !.writes = n.writes,
                       !.raised = IF n.raised THEN "names" ELSE "none"]
    IN With(UpdateEntityNames(
                [registry |-> ts.registry, userNamed |-> ts.userNamed,
                 raised |-> FALSE, writes |-> <<>>],
                ts.synced_lists, ts.w.heap, ts.config.list_prefix,
                FaultAt(fault, "names")),
            Done)

\* a deletion path that updates the configuration whether or not the removal
\* of the entities raised
TickDeletedConfigAnyway(ts, fault) ==
    IF ts.raised # "none" \/ ts.deleted_list_ids = <<>> THEN ts
    ELSE LET Removed(rem) ==
                 [ts EXCEPT
                    !.registry = rem.registry, !.removed = rem.removed,
                    !.raised = IF rem.raised THEN "remove"
                               ELSE IF fault.step = "update_entry" THEN "update_entry"
                               ELSE "none",
                    !.config.lists_to_sync =
                        UpdatedListsToSync(ts.config.lists_to_sync,
                                           ts.deleted_list_ids)]
         IN With(RemoveDeletedEntities(
                     [registry |-> ts.registry, removed |-> <<>>, raised |-> FALSE],
                     ts.deleted_list_ids, FaultAt(fault, "remove")),
                 Removed)

\* lines 76-97: the deletion path
TickDeleted(ts, fault) ==
    IF ts.raised # "none" \/ ts.deleted_list_ids = <<>> THEN ts
    ELSE LET Removed(rem) ==
                 IF rem.raised \/ fault.step = "update_entry"
                 THEN [ts EXCEPT !.registry = rem.registry, !.removed = rem.removed,
                                 !.raised = IF rem.raised THEN "remove"
                                            ELSE "update_entry"]
                 ELSE [ts EXCEPT
                         !.registry = rem.registry, !.removed = rem.removed,
                         !.config.lists_to_sync =
                             UpdatedListsToSync(ts.config.lists_to_sync,
                                                ts.deleted_list_ids)]
         IN With(RemoveDeletedEntities(
                     [registry |-> ts.registry, removed |-> <<>>, raised |-> FALSE],
                     ts.deleted_list_ids, FaultAt(fault, "remove")),
                 Removed)

\* a notification step that diffs against a before snapshot emptied of its items
TickNotifyAllItems(ts, original_lists, fault) ==
    IF ts.raised # "none" THEN ts
    ELSE LET Diff(updated_lists) ==
                 LET E(k) == [original_lists[k] EXCEPT !.items = <<>>]
                     emptied == Map(Len(original_lists), E)
                     Notify(new_items) ==
                         LET n == NotifyNewItems(new_items, FaultAt(fault, "fire"))
                         IN [ts EXCEPT
                               !.events = n.events, !.new_items = new_items,
                               !.event_lists =
                                   SubSeq(NewItemListIds(emptied, updated_lists),
                                          1, Len(n.events)),
                               !.event_ids =
                                   SubSeq(NewItemIds(emptied, updated_lists),
                                          1, Len(n.events)),
                               !.raised = IF n.raised THEN "fire" ELSE "none"]
                 IN With(GetNewItemsAdded(emptied, updated_lists, ts.registry),
                         Notify)
         IN With(ParseData(data, ts.w.heap), Diff)

\* lines 99-110: the after snapshot (of self.data, as the before one), the diff
\* and the notification
TickNotify(ts, original_lists, fault) ==
    IF ts.raised # "none" THEN ts
    ELSE LET Diff(updated_lists) ==
                 LET Notify(new_items) ==
                         LET n == NotifyNewItems(new_items, FaultAt(fault, "fire"))
                         IN [ts EXCEPT
                               !.events = n.events, !.new_items = new_items,
                               !.event_lists =
                                   IF n.events = <<>> THEN <<>>
                                   ELSE SubSeq(NewItemListIds(original_lists,
                                                              updated_lists),
                                               1, Len(n.events)),
                               !.event_ids =
                                   IF n.events = <<>> THEN <<>>
                                   ELSE SubSeq(NewItemIds(original_lists,
                                                          updated_lists),
                                               1, Len(n.events)),
                               !.raised = IF n.raised THEN "fire" ELSE "none"]
                 IN With(GetNewItemsAdded(original_lists, updated_lists, ts.registry),
                         Notify)
         IN With(ParseData(data, ts.w.heap), Diff)

\* the objects still referenced once an operation is over
Reachable(nodes, synced, good, d) ==
    {nodes[l] : l \in DOMAIN nodes} \cup Range(synced) \cup Range(good)
    \cup Range(d.lists)

\* garbage collection: the objects nothing refers to any more are dropped
Collect(hp, live) == [h \in DOMAIN hp \cap live |-> hp[h]]

\* the state left by an operation: world w, coordinator data d, the lists of
\* the last pass that did not fail, and what the operation is observed to do
Commit(w, d, good, obs) ==
    /\ w.keepGen <= MaxGen
    /\ remote' = w.remote
    /\ keepNodes' = w.keepNodes
    /\ keepGen' = w.keepGen
    /\ heap' = Collect(w.heap, Reachable(w.keepNodes, w.lastSynced, good, d))
    /\ lastSynced' = w.lastSynced
    /\ data' = d
    /\ goodLists' = good
    /\ last' = obs

NoneData == [isNone |-> TRUE, lists |-> <<>>]

\* the observation left by an operation that is not a tick
NoConfig == [lists_to_sync |-> <<>>, list_prefix |-> <<>>, list_auto_sort |-> FALSE,
             list_item_case |-> "no_change"]
NoOp(name) == [op |-> name, raised |-> "none", failed |-> "no", lists |-> <<>>,
               deleted |-> <<>>, events |-> <<>>, eventLists |-> <<>>,
               removed |-> <<>>, diffOfReturned |-> <<>>,
               prevData |-> NoneData, prevConfig |-> NoConfig, prevReg |-> {}]

\* the tick after its Sync Engine call (lines 73-110): `synced` is what the
\* call returned, `fault` what the other collaborators do
TickRest(synced, original_lists, fault) ==
    LET Notified(ts) == TickNotify(ts, original_lists, fault)
        Deleted(ts) == With(TickDeleted(ts, fault), Notified)
    IN With(TickNames(synced, fault), Deleted)

\* a tick that returns the synced lists even when a step raised
TickDataAlways(ts) == [isNone |-> FALSE, lists |-> ts.synced_lists]

\* line 112 / line 115: what the tick returns, which becomes coordinator.data
TickData(ts) ==
    IF ts.raised # "none" THEN data ELSE [isNone |-> FALSE, lists |-> ts.synced_lists]

\* what the tick is observed to do.  diffOfReturned is the diff between the
\* before snapshot and the snapshot of the lists the Sync Engine returned.
TickObservation(ts) ==
    [op |-> "tick", raised |-> ts.raised, failed |-> ts.failed,
     lists |-> ts.synced_lists, deleted |-> ts.deleted_list_ids,
     events |-> ts.events, eventLists |-> ts.event_lists, removed |-> ts.removed,
     diffOfReturned |->
         GetNewItemsAdded(ParseData(data, heap),
                          ParseData([isNone |-> FALSE, lists |-> ts.synced_lists],
                                    ts.w.heap),
                          ts.registry),
     prevData |-> data, prevConfig |-> config, prevReg |-> DOMAIN registry]

\* the tick's effect on the integration's state, for any of the given inputs
\* ([inp, fault]: what the syncs do and what the other collaborators do)
TickSteps(inputs) ==
    /\ authenticated
    /\ \E original_lists \in {ParseData(data, heap)} :
       \E inp \in {t.inp : t \in inputs} :
       \E synced \in {TickSync(inp)} :
       \E fault \in {t.fault : t \in {x \in inputs : x.inp = inp}} :
       \E ts \in {TickRest(synced, original_lists, fault)} :
          /\ Commit(ts.w, TickData(ts),
                    IF ts.failed = "no" THEN ts.synced_lists ELSE goodLists,
                    TickObservation(ts))
          /\ config' = ts.config
          /\ registry' = ts.registry
          /\ userNamed' = ts.userNamed
    /\ UNCHANGED <<authenticated, edits, diffIn>>

TickStep(inp, fault) == TickSteps({[inp |-> inp, fault |-> fault]})

Ticks(inputs) == TickSteps(inputs) /\ UNCHANGED probe

Tick(inp, fault) == TickStep(inp, fault) /\ UNCHANGED probe

----------------------------------------------------------------------------
(* The server and the user: what happens outside the integration *)


\* an item is added to list l in the Keep app
RemoteAddItem(l, text) ==
    /\ edits > 0
    /\ edits' = edits - 1
    /\ l \in DOMAIN remote
    /\ Len(remote[l].items) < MaxItems
    /\ remote' = [remote EXCEPT ![l].items =
                     Append(@, [id |-> Len(@) + 1, text |-> text, checked |-> FALSE])]
    /\ last' = NoOp("remote")
    /\ UNCHANGED <<keepNodes, heap, keepGen, authenticated, lastSynced, data,
                   config, registry, userNamed, goodLists, diffIn, probe>>

\* an item of list l is checked or unchecked in the Keep app
RemoteToggleItem(l, i) ==
    /\ edits > 0
    /\ edits' = edits - 1
    /\ l \in DOMAIN remote
    /\ i \in 1..Len(remote[l].items)
    /\ remote' = [remote EXCEPT ![l].items[i].checked = ~@]
    /\ last' = NoOp("remote")
    /\ UNCHANGED <<keepNodes, heap, keepGen, authenticated, lastSynced, data,
                   config, registry, userNamed, goodLists, diffIn, probe>>

\* list l is renamed in the Keep app
RemoteRename(l, title) ==
    /\ edits > 0
    /\ edits' = edits - 1
    /\ l \in DOMAIN remote
    /\ remote[l].title # title
    /\ remote' = [remote EXCEPT ![l].title = title]
    /\ last' = NoOp("remote")
    /\ UNCHANGED <<keepNodes, heap, keepGen, authenticated, lastSynced, data,
                   config, registry, userNamed, goodLists, diffIn, probe>>

\* list l is deleted in the Keep app
RemoteDeleteList(l) ==
    /\ edits > 0
    /\ edits' = edits - 1
    /\ l \in DOMAIN remote
    /\ remote' = [x \in DOMAIN remote \ {l} |-> remote[x]]
    /\ last' = NoOp("remote")
    /\ UNCHANGED <<keepNodes, heap, keepGen, authenticated, lastSynced, data,
                   config, registry, userNamed, goodLists, diffIn, probe>>

\* names a user may give an entity (<<>>: the user-set name is cleared)
UserNames == {<<>>, <<"N">>}

\* the user renames the entity of list l in the entity registry
UserRename(l, name) ==
    /\ edits > 0
    /\ edits' = edits - 1
    /\ l \in DOMAIN registry
    /\ registry[l].name # name
    /\ registry' = [registry EXCEPT ![l].name = name]
    /\ last' = NoOp("user")
    /\ UNCHANGED <<remote, keepNodes, heap, keepGen, authenticated, lastSynced,
                   data, config, userNamed, goodLists, diffIn, probe>>

----------------------------------------------------------------------------
(* The entity platform: todo.async_setup_entry *)

\* GoogleKeepTodoListEntity.__init__: _attr_name (todo.py 49-51)
EntityName(prefix, title) == IF prefix # <<>> THEN prefix \o <<" ">> \o title ELSE title

\* fetch_all_lists (its sync has the shape of one attempt of the retried sync,
\* not retried), then one entity per selected list that exists, registered
\* under its unique id
PlatformSetup(outcome) ==
    /\ authenticated
    /\ DOMAIN registry = {}
    /\ \E r \in {SyncAttempt(World, outcome)} :
       LET found == IF r.ok THEN DOMAIN r.w.keepNodes \cap Range(config.lists_to_sync)
                    ELSE {}
       IN /\ Commit(r.w, data, goodLists, [NoOp("setup") EXCEPT !.raised = IF r.ok THEN "none" ELSE "sync"])
          /\ registry' = [l \in found |->
                            [entity_id |-> EntityIdOf(l), name |-> <<>>,
                             original_name |->
                                 EntityName(config.list_prefix,
                                            r.w.heap[r.w.keepNodes[l]].title)]]
    /\ UNCHANGED <<authenticated, config, userNamed, edits, diffIn, probe>>

----------------------------------------------------------------------------
(* The specification of the integration *)

NoDiff == [original |-> <<>>, updated |-> <<>>, reg |-> EmptyMap, result |-> <<>>,
           done |-> FALSE]

\* configurations the integration is set up with
InitConfigs ==
    {[lists_to_sync |-> <<"L1", "L2">>, list_prefix |-> <<>>,
      list_auto_sort |-> FALSE, list_item_case |-> "no_change"],
     [lists_to_sync |-> <<"L2", "L1">>, list_prefix |-> <<"P">>,
      list_auto_sort |-> TRUE, list_item_case |-> "upper"]}

\* the items the lists of the account hold when the integration is set up
InitialItems(l) ==
    IF l = "L1" THEN <<[id |-> 1, text |-> <<"b">>, checked |-> FALSE]>> ELSE <<>>

\* after async_setup_entry's authenticate(), which loads the account into the
\* Keep client, and the construction of the coordinator
\* the state with the account holding the lists `ids`, each titled T, and
\* configuration cfg
InitWith(ids, cfg) ==
    /\ remote = [l \in ids |-> [title |-> <<"T">>, items |-> InitialItems(l)]]
    /\ keepNodes = [l \in ids |-> <<l, 0>>]
    /\ heap = [h \in {<<l, 0>> : l \in ids} |->
                 NodeOf(h[1], [title |-> <<"T">>, items |-> InitialItems(h[1])])]
    /\ keepGen = 0
    /\ authenticated = TRUE
    /\ lastSynced = <<>>
    /\ data = NoneData
    /\ config = cfg
    /\ registry = EmptyMap
    /\ userNamed = {}
    /\ goodLists = <<>>
    /\ last = NoOp("init")

\* no function has been called on its own
NoProbe == [fn |-> "none"]

Init ==
    \E cfg \in InitConfigs :
        InitWith(TwoLists, cfg) /\ edits = MaxEdits /\ diffIn = NoDiff /\ probe = NoProbe

Next ==
    \/ Ticks(TickInputs)
    \/ \E outcome \in AttemptOutcomes : PlatformSetup(outcome)
    \/ \E l \in ListIds, text \in Texts : RemoteAddItem(l, text)
    \/ \E l \in ListIds, i \in 1..MaxItems : RemoteToggleItem(l, i)
    \/ \E l \in ListIds, title \in Titles : RemoteRename(l, title)
    \/ \E l \in ListIds : RemoteDeleteList(l)
    \/ \E l \in ListIds, name \in UserNames : UserRename(l, name)

Spec == Init /\ [][Next]_vars

----------------------------------------------------------------------------
(* The deletion path with three configured lists *)

DelConfigs ==
    {[lists_to_sync |-> ls, list_prefix |-> <<>>, list_auto_sort |-> FALSE,
      list_item_case |-> "no_change"] : ls \in {<<"L3", "L1", "L2">>, <<"L2", "L3", "L1">>}}

\* the account holds the three configured lists, or L3 was deleted on the
\* server before the integration started
InitDel ==
    \E cfg \in DelConfigs, ids \in {TwoLists, ListIds} :
        InitWith(ids, cfg) /\ edits = MaxEdits /\ diffIn = NoDiff /\ probe = NoProbe

NextDel ==
    \/ Ticks(TickInputs)
    \/ \E outcome \in AttemptOutcomes : PlatformSetup(outcome)
    \/ \E l \in ListIds : RemoteDeleteList(l)

SpecDel == InitDel /\ [][NextDel]_vars

----------------------------------------------------------------------------
(* New items and deleted lists in the same tick *)

\* changes made on the server in a run of SpecEvents
MaxEventEdits == 2

InitEvents ==
    \E cfg \in InitConfigs :
        InitWith(TwoLists, cfg) /\ edits = MaxEventEdits /\ diffIn = NoDiff
        /\ probe = NoProbe

\* the ticks of SpecEvents: the syncs succeed at once or fail for good, and
\* only the event bus may raise
EventTickInputs ==
    {t \in TickInputs :
        /\ t.fault.step \in {"none", "fire"}
        /\ t.inp.extra = "ok"
        /\ \E o \in {"ok", "resync_ok", "err"} : \A i \in 1..MaxRetries : t.inp.script[i] = o}

NextEvents ==
    \/ \E t \in EventTickInputs : Tick(t.inp, t.fault)
    \/ \E outcome \in AttemptOutcomes : PlatformSetup(outcome)
    \/ \E l \in ListIds, text \in Texts : RemoteAddItem(l, text)
    \/ \E l \in ListIds : RemoteDeleteList(l)

SpecEvents == InitEvents /\ [][NextEvents]_vars

----------------------------------------------------------------------------
(* One pass of the Sync Engine as a function of the lists and the options *)

\* texts of the items of a pass, two of them equal without their case
SyncTexts == {<<"b">>, <<"B">>, <<"A">>}

\* the items a list may hold: up to MaxItems, checked or not
SyncItems ==
    UNION {{[i \in 1..n |-> [id |-> i, text |-> t[i], checked |-> c[i]]] :
               t \in [1..n -> SyncTexts], c \in [1..n -> BOOLEAN]} : n \in 0..MaxItems}

\* the account of a pass: L1 with any items, L2 deleted, empty or with one item
SyncAccounts ==
    {[L1 |-> [title |-> <<"T">>, items |-> it]] : it \in SyncItems}
    \cup {[l \in TwoLists |->
              [title |-> <<"T">>, items |-> IF l = "L1" THEN it ELSE it2]] :
           it \in SyncItems,
           it2 \in {<<>>, <<[id |-> 1, text |-> <<"b">>, checked |-> FALSE]>>}}

\* the options of a pass
SyncConfigs ==
    {[lists_to_sync |-> ls, list_prefix |-> <<>>, list_auto_sort |-> srt,
      list_item_case |-> c] :
        ls \in {<<"L1", "L2">>, <<"L2", "L1">>}, srt \in BOOLEAN,
        c \in {"no_change", "upper", "lower", "sentence", "title"}}

\* outcomes of the syncs of a pass: those of a tick, and the additional sync()
\* raising ResyncRequiredException
PassInputs ==
    SyncInputs \cup {[script |-> [i \in 1..MaxRetries |-> "ok"], extra |-> "resync"]}

InitSync ==
    \E acct \in SyncAccounts, cfg \in SyncConfigs, inp \in PassInputs :
        /\ remote = acct
        /\ keepNodes = [l \in DOMAIN acct |-> <<l, 0>>]
        /\ heap = [h \in {<<l, 0>> : l \in DOMAIN acct} |-> NodeOf(h[1], acct[h[1]])]
        /\ keepGen = 0
        /\ authenticated = TRUE
        /\ lastSynced = <<>>
        /\ data = NoneData
        /\ config = cfg
        /\ registry = EmptyMap
        /\ userNamed = {}
        /\ goodLists = <<>>
        /\ last = NoOp("init")
        /\ edits = MaxEdits
        /\ diffIn = NoDiff
        /\ probe = [fn |-> "sync", done |-> FALSE, inp |-> inp, account |-> acct,
                    failed |-> FALSE, exhausted |-> FALSE, deleted |-> <<>>,
                    log |-> <<>>]

\* one call of async_sync_data
ApplySync ==
    /\ probe.fn = "sync"
    /\ ~probe.done
    /\ authenticated
    /\ \E r \in {async_sync_data(World, config.lists_to_sync, config.list_auto_sort,
                                  config.list_item_case, probe.inp)} :
          /\ Commit(r.w, data, goodLists, last)
          /\ probe' = [probe EXCEPT !.done = TRUE, !.failed = r.failed,
                                    !.exhausted = r.exhausted,
                                    !.deleted = r.deleted, !.log = r.log]
    /\ UNCHANGED <<authenticated, config, registry, userNamed, edits, diffIn>>

NextSync == ApplySync

SpecSync == InitSync /\ [][NextSync]_vars

----------------------------------------------------------------------------
(* The case transform as a function of the text and the mode *)

\* length of the texts the transform is applied to
MaxCaseLen == 3

\* ListCase (api.py 22-29)
ListCases == {"no_change", "upper", "lower", "sentence", "title"}

\* texts of lower-case and upper-case letters and blanks
CaseTexts == UNION {[1..n -> {"a", "B", " "}] : n \in 0..MaxCaseLen}

\* lists of up to MaxItems items
CaseItems ==
    UNION {{[i \in 1..n |-> [id |-> i, text |-> t[i], checked |-> FALSE]] :
               t \in [1..n -> {<<"a">>, <<"B">>, <<"A", " ", "b">>}]} :
           n \in 0..MaxItems}

InitCase ==
    /\ InitWith(TwoLists, CHOOSE cfg \in InitConfigs : TRUE)
    /\ edits = MaxEdits
    /\ diffIn = NoDiff
    /\ \E x \in CaseTexts, items \in CaseItems, mode \in ListCases :
          probe = [fn |-> "case", done |-> FALSE, x |-> x, items |-> items,
                   mode |-> mode, once |-> <<>>, twice |-> <<>>,
                   list_changed |-> FALSE, after |-> <<>>]

\* change_case applied to a text and to its result, and change_list_case
\* applied to a list
ApplyCase ==
    /\ probe.fn = "case"
    /\ ~probe.done
    /\ probe' = [probe EXCEPT
                   !.done = TRUE,
                   !.once = change_case(probe.x, probe.mode),
                   !.twice = change_case(change_case(probe.x, probe.mode), probe.mode),
                   !.list_changed = change_list_case(probe.items, probe.mode),
                   !.after = change_list_case_items(probe.items, probe.mode)]
    /\ UNCHANGED <<remote, keepNodes, heap, keepGen, authenticated, lastSynced, data,
                   config, registry, userNamed, edits, goodLists, last, diffIn>>

NextCase == ApplyCase

SpecCase == InitCase /\ [][NextCase]_vars

----------------------------------------------------------------------------
(* Two passes of the Sync Engine with no remote change between them *)

\* the items of every list, on the server and in the client
ItemsOf(w) ==
    [remote |-> [l \in DOMAIN w.remote |-> w.remote[l].items],
     client |-> [l \in DOMAIN w.keepNodes |-> w.heap[w.keepNodes[l]].items]]

\* a second call of async_sync_data, with the options of the first
ApplySyncAgain ==
    /\ probe.fn = "sync"
    /\ probe.done
    /\ authenticated
    /\ \E inp \in PassInputs :
       \E r \in {async_sync_data(World, config.lists_to_sync, config.list_auto_sort,
                                  config.list_item_case, inp)} :
          /\ Commit(r.w, data, goodLists, last)
          /\ probe' = [fn |-> "sync_again", first |-> probe, inp |-> inp,
                       failed |-> r.failed, log |-> r.log, sortCalls |-> r.sortCalls,
                       before |-> ItemsOf(World), after |-> ItemsOf(r.w)]
    /\ UNCHANGED <<authenticated, config, registry, userNamed, edits, diffIn>>

NextTwice ==
    \/ ApplySync
    \/ ApplySyncAgain

SpecTwice == InitSync /\ [][NextTwice]_vars

----------------------------------------------------------------------------
(* The retried sync as a function of the outcomes of its attempts *)

InitRetry ==
    /\ InitWith(TwoLists, CHOOSE cfg \in InitConfigs : TRUE)
    /\ edits = MaxEdits
    /\ diffIn = NoDiff
    /\ \E script \in [1..MaxRetries -> AttemptOutcomes] :
          probe = [fn |-> "retry", done |-> FALSE, script |-> script,
                   ok |-> FALSE, attempts |-> 0, error |-> 0, log |-> <<>>]

\* one call of the decorated _sync_with_google_keep
ApplyRetry ==
    /\ probe.fn = "retry"
    /\ ~probe.done
    /\ \E r \in {SyncWithGoogleKeep(World, probe.script)} :
          probe' = [probe EXCEPT !.done = TRUE, !.ok = r.ok,
                                 !.attempts = r.attempts, !.error = r.error,
                                 !.log = BackoffLog(probe.script, 0)]
    /\ UNCHANGED <<remote, keepNodes, heap, keepGen, authenticated, lastSynced, data,
                   config, registry, userNamed, edits, goodLists, last, diffIn>>

NextRetry == ApplyRetry

SpecRetry == InitRetry /\ [][NextRetry]_vars

----------------------------------------------------------------------------
(* Entity names over several ticks: renames by the user and on the server *)

\* renames, by the user or on the server, in a run of SpecLatch
MaxLatchEdits == 3

\* the ticks of SpecLatch: the syncs succeed at once or fail for good, and no
\* collaborator raises
LatchTickInputs == {t \in EventTickInputs : t.fault = NoFault}

InitLatch ==
    \E cfg \in InitConfigs :
        InitWith(TwoLists, cfg) /\ edits = MaxLatchEdits /\ diffIn = NoDiff
        /\ probe = NoProbe

NextLatch ==
    \/ \E t \in LatchTickInputs : Tick(t.inp, t.fault)
    \/ \E outcome \in AttemptOutcomes : PlatformSetup(outcome)
    \/ \E l \in TwoLists, title \in Titles : RemoteRename(l, title)
    \/ \E l \in TwoLists, name \in UserNames : UserRename(l, name)

SpecLatch == InitLatch /\ [][NextLatch]_vars

----------------------------------------------------------------------------
(* _update_entity_names as a function of the registry and the returned lists *)

\* titles and prefixes of the lists handed to the reconciliation, some with
\* blanks at their ends
ProbeTitles == {<<"T">>, <<"U", " ">>}
ProbePrefixes == {<<>>, <<"P">>, <<" ", "P">>}
ProbeOriginalNames == {<<"T">>, <<"P", " ", "T">>, <<"U">>, <<" ", "U", " ">>}

\* registries in which each list has no entity, or one with or without a
\* user-set name
ProbeRegistries ==
    UNION { [S -> [entity_id : {NoEntityId}, name : UserNames,
                   original_name : ProbeOriginalNames]] : S \in SUBSET TwoLists }

ProbeRegistryOf(r) ==
    [l \in DOMAIN r |-> [r[l] EXCEPT !.entity_id = EntityIdOf(l)]]

\* the list objects of the returned lists
ProbeHeap(titles) ==
    [h \in {<<l, 0>> : l \in TwoLists} |->
        NodeOf(h[1], [title |-> titles[h[1]], items |-> <<>>])]

InitNames ==
    /\ InitWith(TwoLists, CHOOSE cfg \in InitConfigs : TRUE)
    /\ edits = MaxEdits
    /\ diffIn = NoDiff
    /\ \E r \in ProbeRegistries, titles \in [TwoLists -> ProbeTitles],
          prefix \in ProbePrefixes, order \in Perms(TwoLists),
          un \in SUBSET {EntityIdOf("L1")}, fault \in 0..MaxFaultAt :
          probe = [fn |-> "names", done |-> FALSE,
                   registry |-> ProbeRegistryOf(r), userNamed |-> un,
                   synced |-> [i \in 1..Len(order) |-> <<order[i], 0>>],
                   titles |-> titles, prefix |-> prefix, fault |-> fault,
                   out |-> [registry |-> ProbeRegistryOf(r), userNamed |-> un,
                            raised |-> FALSE, writes |-> <<>>]]

\* one call of _update_entity_names
ApplyNames ==
    /\ probe.fn = "names"
    /\ ~probe.done
    /\ probe' = [probe EXCEPT
                   !.done = TRUE,
                   !.out = UpdateEntityNames(
                               [registry |-> probe.registry,
                                userNamed |-> probe.userNamed,
                                raised |-> FALSE, writes |-> <<>>],
                               probe.synced, ProbeHeap(probe.titles),
                               probe.prefix, probe.fault)]
    /\ UNCHANGED <<remote, keepNodes, heap, keepGen, authenticated, lastSynced, data,
                   config, registry, userNamed, edits, goodLists, last, diffIn>>

NextNames == ApplyNames

SpecNames == InitNames /\ [][NextNames]_vars

----------------------------------------------------------------------------
(* _get_new_items_added as a function of two snapshots *)

\* items a snapshot list may hold
MaxDiffItems == 2

\* the text of item i of list l: it names the list and the item
DiffText(l, i) == <<l, i>>

\* the item ids of a list, in increasing order and in any order
AscendingIds == {q \in Perms(1..MaxDiffItems) : \A i, j \in 1..Len(q) : i < j => q[i] < q[j]}
AnyOrderIds == Perms(1..MaxDiffItems)

\* the snapshots over the key sequences keySeqs, the items of each list taken
\* from idSeqs
DiffSnaps(keySeqs, idSeqs) ==
    UNION {
      {LET Items(l, q) ==
               LET G(i) == [id |-> q[i], summary |-> DiffText(l, q[i]),
                            checked |-> FALSE]
               IN Map(Len(q), G)
           F(k) == [id |-> ks[k], name |-> <<"T">>, items |-> Items(ks[k], f[k])]
       IN Map(Len(ks), F) : f \in [1..Len(ks) -> idSeqs]}
      : ks \in keySeqs}

DiffRegistries ==
    {[l \in ids |-> [entity_id |-> EntityIdOf(l), name |-> <<>>, original_name |-> <<"T">>]] :
        ids \in SUBSET TwoLists}

InitDiff ==
    /\ InitWith(TwoLists, CHOOSE cfg \in InitConfigs : TRUE)
    /\ edits = MaxEdits
    /\ probe = NoProbe
    /\ \E o \in DiffSnaps({SeqFilter(<<"L1", "L2">>, S) : S \in SUBSET TwoLists},
                          AscendingIds),
          u \in DiffSnaps(Perms(TwoLists), AnyOrderIds),
          reg \in DiffRegistries :
          diffIn = [original |-> o, updated |-> u, reg |-> reg, result |-> <<>>,
                    done |-> FALSE]

\* one evaluation of _get_new_items_added
ApplyDiff ==
    /\ ~diffIn.done
    /\ diffIn' = [diffIn EXCEPT
                    !.result = GetNewItemsAdded(diffIn.original, diffIn.updated, diffIn.reg),
                    !.done = TRUE]
    /\ UNCHANGED <<remote, keepNodes, heap, keepGen, authenticated, lastSynced, data,
                   config, registry, userNamed, edits, goodLists, last, probe>>

NextDiff == ApplyDiff

SpecDiff == InitDiff /\ [][NextDiff]_vars

----------------------------------------------------------------------------
(* The item operations of the API and of the to-do entity *)

\* authenticated_required (api.py 262-278): the wrapped operation runs only
\* when the API is authenticated; otherwise the wrapper raises before calling
\* it.  `body` is the result of the operation, [w, raised, calls].
RECURSIVE authenticated_required(_, _, _)
authenticated_required_unguarded(auth, w, body) == body

authenticated_required(auth, w, body) ==
    IF ~auth THEN [w |-> w, raised |-> TRUE, calls |-> <<>>] ELSE body

\* the id of a list item the client creates (unique within the list)
NewItemId(items) ==
    LET ids == {items[i].id : i \in 1..Len(items)}
    IN IF ids = {} THEN 1 ELSE 1 + CHOOSE m \in ids : \A x \in ids : x <= m

\* a create that sends the item to the server and leaves the client's list
\* object as it is
api_create_todo_item_remote(w, list_id, text, fails) ==
    IF list_id \notin DOMAIN w.keepNodes
    THEN [w |-> w, raised |-> TRUE, calls |-> <<"get">>]
    ELSE IF fails \/ list_id \notin DOMAIN w.remote
    THEN [w |-> w, raised |-> TRUE, calls |-> <<"get", "add">>]
    ELSE [w |-> [w EXCEPT !.remote[list_id].items =
                    Append(@, [id |-> NewItemId(@), text |-> text,
                               checked |-> FALSE])],
          raised |-> FALSE, calls |-> <<"get", "add">>]

\* async_create_todo_item: append an unchecked item at the bottom of the list;
\* a list the client does not hold raises.  `fails`: the client call raises.
api_create_todo_item(w, list_id, text, fails) ==
    IF list_id \notin DOMAIN w.keepNodes
    THEN [w |-> w, raised |-> TRUE, calls |-> <<"get">>]
    ELSE IF fails THEN [w |-> w, raised |-> TRUE, calls |-> <<"get", "add">>]
    ELSE LET h == w.keepNodes[list_id]
         IN [w |-> [w EXCEPT !.heap[h].items =
                        Append(@, [id |-> NewItemId(@), text |-> text,
                                   checked |-> FALSE]),
                              !.heap[h].dirty = TRUE],
             raised |-> FALSE, calls |-> <<"get", "add">>]

\* async_delete_todo_item: delete the item with that id; a missing list or item
\* is only logged
api_delete_todo_item(w, list_id, item_id, fails) ==
    IF list_id \notin DOMAIN w.keepNodes
    THEN [w |-> w, raised |-> FALSE, calls |-> <<"get">>]
    ELSE LET h == w.keepNodes[list_id]
             items == w.heap[h].items
             others == {items[i] : i \in {j \in 1..Len(items) : items[j].id # item_id}}
         IN IF \A i \in 1..Len(items) : items[i].id # item_id
            THEN [w |-> w, raised |-> FALSE, calls |-> <<"get">>]
            ELSE IF fails THEN [w |-> w, raised |-> TRUE, calls |-> <<"get", "delete">>]
            ELSE [w |-> [w EXCEPT !.heap[h].items = SeqFilter(items, others),
                                  !.heap[h].dirty = TRUE],
                  raised |-> FALSE, calls |-> <<"get", "delete">>]

\* an update that sets the checked flag of every item of the list
api_update_todo_item_all(w, list_id, item_id, new_text, checked) ==
    IF list_id \notin DOMAIN w.keepNodes
    THEN [w |-> w, raised |-> FALSE, calls |-> <<"get">>]
    ELSE LET h == w.keepNodes[list_id]
             items == w.heap[h].items
         IN [w |-> [w EXCEPT !.heap[h].items =
                       [i \in 1..Len(items) |->
                          IF items[i].id = item_id
                          THEN [items[i] EXCEPT !.text = new_text,
                                                !.checked = checked]
                          ELSE [items[i] EXCEPT !.checked = checked]],
                             !.heap[h].dirty = TRUE],
             raised |-> FALSE, calls |-> <<"get", "set">>]

\* async_update_todo_item: set the text and the checked flag of the item with
\* that id; a missing list or item is only logged
api_update_todo_item(w, list_id, item_id, new_text, checked) ==
    IF list_id \notin DOMAIN w.keepNodes
    THEN [w |-> w, raised |-> FALSE, calls |-> <<"get">>]
    ELSE LET h == w.keepNodes[list_id]
             items == w.heap[h].items
         IN IF \A i \in 1..Len(items) : items[i].id # item_id
            THEN [w |-> w, raised |-> FALSE, calls |-> <<"get">>]
            ELSE [w |-> [w EXCEPT !.heap[h].items =
                            [i \in 1..Len(items) |->
                               IF items[i].id = item_id
                               THEN [items[i] EXCEPT !.text = new_text,
                                                     !.checked = checked]
                               ELSE items[i]],
                                  !.heap[h].dirty = TRUE],
                  raised |-> FALSE, calls |-> <<"get", "set">>]

\* fetch_all_lists: one sync (a full resync when the client asks for one),
\* not retried
api_fetch_all_lists(w, outcome) ==
    LET Fetched(r) == [w |-> r.w, raised |-> ~r.ok, calls |-> AttemptCalls(outcome)]
    IN With(SyncAttempt(w, outcome), Fetched)

\* the operations as the entity and the platform call them
async_create_todo_item(auth, w, list_id, text, fails) ==
    authenticated_required(auth, w, api_create_todo_item(w, list_id, text, fails))

async_delete_todo_item(auth, w, list_id, item_id, fails) ==
    authenticated_required(auth, w, api_delete_todo_item(w, list_id, item_id, fails))

async_update_todo_item(auth, w, list_id, item_id, new_text, checked) ==
    authenticated_required(auth, w,
        api_update_todo_item(w, list_id, item_id, new_text, checked))

fetch_all_lists(auth, w, outcome) ==
    authenticated_required(auth, w, api_fetch_all_lists(w, outcome))

\* what an entity operation has done when its mutation attempts are over:
\* `attempts` holds, per attempt, whether it raised.  Every exception is caught
\* and logged, and the refresh is requested in any case (todo.py 82-92,
\* 100-116, 124-135).
RECURSIVE EntityOutcome(_, _)
EntityOutcomeNoFinally(w, attempts) ==
    LET raised == \E i \in 1..Len(attempts) : attempts[i]
    IN [w |-> w, attempts |-> attempts, refresh |-> ~raised, propagated |-> raised]

EntityOutcome(w, attempts) ==
    [w |-> w, attempts |-> attempts, refresh |-> TRUE, propagated |-> FALSE]

\* GoogleKeepTodoListEntity.async_create_todo_item, up to its refresh
entity_create_todo_item(auth, w, list_id, text, fails) ==
    LET Done(r) == EntityOutcome(r.w, <<r.raised>>)
    IN With(async_create_todo_item(auth, w, list_id, text, fails), Done)

\* GoogleKeepTodoListEntity.async_update_todo_item, up to its refresh
entity_update_todo_item(auth, w, list_id, item_id, new_text, checked) ==
    LET Done(r) == EntityOutcome(r.w, <<r.raised>>)
    IN With(async_update_todo_item(auth, w, list_id, item_id, new_text, checked), Done)

\* a loop that gives up at the first call that raises
delete_todo_items_loop_stopping(auth, w, list_id, uids, failsAt) ==
    LET RECURSIVE Loop(_, _, _)
        Loop(cur, k, log) ==
            IF k > Len(uids) THEN [w |-> cur, log |-> log]
            ELSE LET After(r) ==
                         IF r.raised
                         THEN [w |-> r.w,
                               log |-> Append(log, [call |-> "delete", uid |-> uids[k],
                                                    raised |-> TRUE])]
                         ELSE Loop(r.w, k + 1,
                                   Append(log, [call |-> "delete", uid |-> uids[k],
                                                raised |-> FALSE]))
                 IN With(async_delete_todo_item(auth, cur, list_id, uids[k],
                                                failsAt = k),
                         After)
    IN Loop(w, 1, <<>>)

\* the loop of GoogleKeepTodoListEntity.async_delete_todo_items (todo.py
\* 82-89): one api call per uid, each in its own try / except Exception.  The
\* client call of the failsAt-th uid raises.  [w, log]: the world after the
\* loop and, per call, the uid and whether the call raised
delete_todo_items_loop(auth, w, list_id, uids, failsAt) ==
    LET RECURSIVE Loop(_, _, _)
        Loop(cur, k, log) ==
            IF k > Len(uids) THEN [w |-> cur, log |-> log]
            ELSE LET After(r) ==
                         Loop(r.w, k + 1,
                              Append(log, [call |-> "delete", uid |-> uids[k],
                                           raised |-> r.raised]))
                 IN With(async_delete_todo_item(auth, cur, list_id, uids[k],
                                                failsAt = k),
                         After)
    IN Loop(w, 1, <<>>)

\* GoogleKeepTodoListEntity.async_delete_todo_items, up to its refresh: one
\* attempt per uid, in order; failsAt is the attempt whose client call raises
entity_delete_todo_items(auth, w, list_id, uids, failsAt) ==
    LET Done(r) ==
            LET F(k) == r.log[k].raised
            IN EntityOutcome(r.w, Map(Len(r.log), F))
    IN With(delete_todo_items_loop(auth, w, list_id, uids, failsAt), Done)

----------------------------------------------------------------------------
(* The to-do entity's operations and the coordinator's refreshes as tasks of
   the event loop.  A refresh is DataUpdateCoordinator.async_refresh(): it
   cancels the scheduled refresh, awaits _async_update_data (the tick), and
   schedules the next refresh when the tick is over; it takes no lock.  The
   tick awaits its syncs, so other tasks run between its beginning and its
   end; its effect on the state is applied at its end. *)

\* entity operations in a run
MaxEntityOps == 2

\* the ticks of SpecEntity
EntityTickInputs == LatchTickInputs

\* the uid lists of a delete call
DeleteUids == {<<1>>, <<1, 2>>}
\* the texts an entity operation writes
EntityTexts == {<<"a">>}

IdleEntity == [fn |-> "entity", pc |-> "idle", kind |-> "none", expected |-> 0,
               attempts |-> <<>>, refreshes |-> 0, propagated |-> FALSE,
               timer |-> "idle", scheduled |-> TRUE, running |-> {}]

InitEntity ==
    \E cfg \in InitConfigs :
        InitWith(TwoLists, cfg) /\ edits = MaxEntityOps /\ diffIn = NoDiff
        /\ probe = IdleEntity

\* a service call reaches the entity of list l and its mutation attempts run;
\* r is what the operation has done before its refresh
EntityCalled(kind, expected, r) ==
    /\ probe.fn = "entity"
    /\ probe.pc \in {"idle", "done"}
    /\ edits > 0
    /\ edits' = edits - 1
    /\ Commit(r.w, data, goodLists, NoOp("entity"))
    /\ probe' = [probe EXCEPT !.pc = IF r.refresh THEN "refresh" ELSE "aborted",
                              !.kind = kind, !.expected = expected,
                              !.attempts = r.attempts, !.refreshes = 0,
                              !.propagated = r.propagated]
    /\ UNCHANGED <<authenticated, config, registry, userNamed, diffIn>>

EntityCreate(l, text, fails) ==
    /\ l \in DOMAIN registry
    /\ l \in DOMAIN keepNodes => Len(heap[keepNodes[l]].items) < MaxItems
    /\ EntityCalled("create", 1,
                    entity_create_todo_item(authenticated, World, l, text, fails))

EntityUpdate(l, item_id, new_text, checked) ==
    /\ l \in DOMAIN registry
    /\ EntityCalled("update", 1,
                    entity_update_todo_item(authenticated, World, l, item_id,
                                            new_text, checked))

EntityDelete(l, uids, failsAt) ==
    /\ l \in DOMAIN registry
    /\ EntityCalled("delete", Len(uids),
                    entity_delete_todo_items(authenticated, World, l, uids, failsAt))

\* the entity operation calls coordinator.async_refresh()
EntityRefreshBegin ==
    /\ probe.fn = "entity"
    /\ probe.pc = "refresh"
    /\ probe' = [probe EXCEPT !.pc = "in_tick", !.refreshes = @ + 1,
                              !.scheduled = FALSE,
                              !.running = @ \cup {"entity"}]
    /\ UNCHANGED <<remote, keepNodes, heap, keepGen, authenticated, lastSynced, data,
                   config, registry, userNamed, edits, goodLists, last, diffIn>>

\* the tick of the refresh the entity operation requested is over
EntityRefreshEnd(inp, fault) ==
    /\ probe.fn = "entity"
    /\ probe.pc = "in_tick"
    /\ TickStep(inp, fault)
    /\ probe' = [probe EXCEPT !.pc = "done", !.scheduled = TRUE,
                              !.running = @ \ {"entity"}]

\* the scheduled refresh fires
TimerRefreshBegin ==
    /\ probe.fn = "entity"
    /\ probe.timer = "idle"
    /\ probe.scheduled
    /\ probe' = [probe EXCEPT !.timer = "in_tick", !.scheduled = FALSE,
                              !.running = @ \cup {"timer"}]
    /\ UNCHANGED <<remote, keepNodes, heap, keepGen, authenticated, lastSynced, data,
                   config, registry, userNamed, edits, goodLists, last, diffIn>>

\* the tick of the scheduled refresh is over
TimerRefreshEnd(inp, fault) ==
    /\ probe.fn = "entity"
    /\ probe.timer = "in_tick"
    /\ TickStep(inp, fault)
    /\ probe' = [probe EXCEPT !.timer = "idle", !.scheduled = TRUE,
                              !.running = @ \ {"timer"}]

NextEntity ==
    \/ \E outcome \in {"ok"} : PlatformSetup(outcome)
    \/ \E l \in TwoLists, text \in EntityTexts, fails \in BOOLEAN :
          EntityCreate(l, text, fails)
    \/ \E l \in TwoLists, item_id \in 1..MaxItems, text \in EntityTexts,
          checked \in BOOLEAN : EntityUpdate(l, item_id, text, checked)
    \/ \E l \in TwoLists, uids \in DeleteUids, failsAt \in 0..2 :
          EntityDelete(l, uids, failsAt)
    \/ EntityRefreshBegin
    \/ \E t \in EntityTickInputs : EntityRefreshEnd(t.inp, t.fault)
    \/ TimerRefreshBegin
    \/ \E t \in EntityTickInputs : TimerRefreshEnd(t.inp, t.fault)

SpecEntity == InitEntity /\ [][NextEntity]_vars

----------------------------------------------------------------------------
(* The manual sync service (async_service_request_sync), with a clock in
   seconds *)

\* the minimum interval between the last successful tick and a manual refresh
SyncThreshold == 55
\* the last second of a run
MaxClock == 60
\* by how many seconds the clock advances in one step
ClockSteps == {5, 49}

\* the request: a refresh is started when at least SyncThreshold seconds have
\* passed since the last successful tick; otherwise a warning is logged and
\* nothing is queued
RECURSIVE async_service_request_sync(_)
async_service_request_sync_queueing(elapsed) ==
    [refresh |-> elapsed >= SyncThreshold, warned |-> elapsed < SyncThreshold,
     queued |-> elapsed < SyncThreshold]

async_service_request_sync(elapsed) ==
    IF elapsed >= SyncThreshold
    THEN [refresh |-> TRUE, warned |-> FALSE, queued |-> FALSE]
    ELSE [refresh |-> FALSE, warned |-> TRUE, queued |-> FALSE]

InitManual ==
    \E cfg \in InitConfigs :
        /\ InitWith(TwoLists, cfg) /\ edits = MaxEdits /\ diffIn = NoDiff
        /\ probe = [fn |-> "manual", now |-> 0, lastSuccess |-> 0,
                    requested |-> FALSE, elapsed |-> 0, refreshes |-> 0,
                    warned |-> FALSE, pending |-> 0]

\* the time of the last successful tick, once a tick is over
SuccessTime(obs, now, lastSuccess) ==
    IF obs.raised = "none" /\ obs.failed = "no" THEN now ELSE lastSuccess

ClockAdvance(d) ==
    /\ probe.fn = "manual"
    /\ probe.now + d <= MaxClock
    /\ probe' = [probe EXCEPT !.now = @ + d]
    /\ UNCHANGED <<remote, keepNodes, heap, keepGen, authenticated, lastSynced, data,
                   config, registry, userNamed, edits, goodLists, last, diffIn>>

\* the scheduled refresh
ManualTimerTick(inp, fault) ==
    /\ probe.fn = "manual"
    /\ probe.pending = 0
    /\ TickStep(inp, fault)
    /\ probe' = [probe EXCEPT !.requested = FALSE,
                              !.lastSuccess = SuccessTime(last', probe.now, @)]

\* the service is called
ManualRequest(inp, fault) ==
    /\ probe.fn = "manual"
    /\ probe.pending = 0
    /\ \E r \in {async_service_request_sync(probe.now - probe.lastSuccess)} :
          /\ IF r.refresh
             THEN TickStep(inp, fault)
             ELSE /\ inp = CHOOSE t \in {x.inp : x \in EntityTickInputs} : TRUE
                  /\ UNCHANGED <<remote, keepNodes, heap, keepGen, authenticated,
                                 lastSynced, data, config, registry, userNamed,
                                 edits, goodLists, last, diffIn>>
          /\ probe' = [probe EXCEPT
                         !.requested = TRUE,
                         !.elapsed = probe.now - probe.lastSuccess,
                         !.refreshes = IF r.refresh THEN 1 ELSE 0,
                         !.warned = r.warned,
                         !.pending = IF r.queued THEN 1 ELSE 0,
                         !.lastSuccess = IF r.refresh
                                         THEN SuccessTime(last', probe.now, @)
                                         ELSE @]

NextManual ==
    \/ \E d \in ClockSteps : ClockAdvance(d)
    \/ \E t \in EntityTickInputs : ManualTimerTick(t.inp, t.fault)
    \/ \E t \in EntityTickInputs : ManualRequest(t.inp, t.fault)

SpecManual == InitManual /\ [][NextManual]_vars

----------------------------------------------------------------------------
(* The guarded operations of the API as functions of the authentication flag *)

\* async_sync_data as its callers see it, behind authenticated_required; the
\* pass itself raises nothing, and its first sync attempt calls the client
guarded_async_sync_data(auth, w, lists_to_sync, sort_lists, case_type, inp) ==
    LET Passed(r) == [w |-> r.w, raised |-> FALSE,
                      calls |-> AttemptCalls(inp.script[1])]
    IN authenticated_required(auth, w,
           With(async_sync_data(w, lists_to_sync, sort_lists, case_type, inp),
                Passed))

\* the API before an operation: any account loaded in the client, authenticated
\* or not; no pass has succeeded yet
InitGuard ==
    \E acct \in SyncAccounts, cfg \in InitConfigs, auth \in BOOLEAN :
        /\ remote = acct
        /\ keepNodes = [l \in DOMAIN acct |-> <<l, 0>>]
        /\ heap = [h \in {<<l, 0>> : l \in DOMAIN acct} |-> NodeOf(h[1], acct[h[1]])]
        /\ keepGen = 0
        /\ authenticated = auth
        /\ lastSynced = <<>>
        /\ data = NoneData
        /\ config = cfg
        /\ registry = EmptyMap
        /\ userNamed = {}
        /\ goodLists = <<>>
        /\ last = NoOp("init")
        /\ edits = MaxEdits
        /\ diffIn = NoDiff
        /\ probe = [fn |-> "guard", done |-> FALSE, op |-> "none", raised |-> FALSE,
                    calls |-> <<>>, before |-> <<>>]

\* one guarded operation is called; r is its result
GuardCalled(op, r) ==
    /\ probe.fn = "guard"
    /\ ~probe.done
    /\ Commit(r.w, data, goodLists, last)
    /\ probe' = [probe EXCEPT !.done = TRUE, !.op = op, !.raised = r.raised,
                              !.calls = r.calls, !.before = World]
    /\ UNCHANGED <<authenticated, config, registry, userNamed, edits, diffIn>>

GuardCreate(l, text, fails) ==
    /\ l \in DOMAIN keepNodes => Len(heap[keepNodes[l]].items) < MaxItems
    /\ GuardCalled("create", async_create_todo_item(authenticated, World, l, text, fails))

GuardUpdate(l, item_id, text, checked) ==
    /\ probe.fn = "guard"
    /\ GuardCalled("update",
                   async_update_todo_item(authenticated, World, l, item_id, text, checked))

GuardDelete(l, item_id, fails) ==
    /\ probe.fn = "guard"
    /\ GuardCalled("delete", async_delete_todo_item(authenticated, World, l, item_id, fails))

GuardFetch(outcome) ==
    /\ probe.fn = "guard"
    /\ GuardCalled("fetch_all_lists", fetch_all_lists(authenticated, World, outcome))

GuardSync(inp) ==
    /\ probe.fn = "guard"
    /\ GuardCalled("async_sync_data",
                   guarded_async_sync_data(authenticated, World, config.lists_to_sync,
                                           config.list_auto_sort, config.list_item_case,
                                           inp))

NextGuard ==
    \/ \E l \in ListIds, text \in EntityTexts, fails \in BOOLEAN :
          GuardCreate(l, text, fails)
    \/ \E l \in ListIds, item_id \in 1..MaxItems, text \in EntityTexts,
          checked \in BOOLEAN : GuardUpdate(l, item_id, text, checked)
    \/ \E l \in ListIds, item_id \in 1..MaxItems, fails \in BOOLEAN :
          GuardDelete(l, item_id, fails)
    \/ \E outcome \in AttemptOutcomes : GuardFetch(outcome)
    \/ \E inp \in SyncInputs : GuardSync(inp)

SpecGuard == InitGuard /\ [][NextGuard]_vars

----------------------------------------------------------------------------
(* Authentication: GoogleKeepAPI.authenticate *)

\* what the collaborators of one authenticate() call do:
\*   saved     a token, a state and a username are stored
\*   resume    Keep.authenticate with the saved state: ok, LoginException
\*             ("login"), ResyncRequiredException ("resync"), another
\*             exception ("error")
\*   again     the forced resync and second Keep.authenticate after "resync"
\*   creds     a username and a token were given
\*   oauth     the token is an OAuth token; exchange: the exchange yields a
\*             master token
\*   login     Keep.authenticate with the token
AuthScenarios ==
    [saved : BOOLEAN, resume : {"ok", "login", "resync", "error"},
     again : {"ok", "login", "error"}, creds : BOOLEAN, oauth : BOOLEAN,
     exchange : BOOLEAN, login : {"ok", "login", "error"}]

\* async_login_with_saved_state (api.py 191-249)
async_login_with_saved_state(sc) ==
    IF ~sc.saved THEN [ok |-> FALSE, raised |-> FALSE, auth |-> FALSE, calls |-> <<>>]
    ELSE CASE sc.resume = "ok" ->
                [ok |-> TRUE, raised |-> FALSE, auth |-> TRUE,
                 calls |-> <<"authenticate_state">>]
           [] sc.resume = "login" ->
                [ok |-> FALSE, raised |-> FALSE, auth |-> FALSE,
                 calls |-> <<"authenticate_state">>]
           [] sc.resume = "error" ->
                [ok |-> FALSE, raised |-> TRUE, auth |-> FALSE,
                 calls |-> <<"authenticate_state">>]
           [] sc.resume = "resync" ->
                [ok |-> sc.again = "ok", raised |-> sc.again = "error",
                 auth |-> sc.again = "ok",
                 calls |-> <<"authenticate_state", "sync_full", "authenticate_token">>]

\* async_login_with_token (api.py 107-173): every exception is caught
async_login_with_token(sc) ==
    IF ~sc.creds THEN [ok |-> FALSE, auth |-> FALSE, calls |-> <<>>]
    ELSE IF sc.oauth /\ ~sc.exchange
         THEN [ok |-> FALSE, auth |-> FALSE, calls |-> <<"exchange_token">>]
         ELSE [ok |-> sc.login = "ok", auth |-> sc.login = "ok",
               calls |-> (IF sc.oauth THEN <<"exchange_token">> ELSE <<>>)
                         \o <<"authenticate_token">>]

\* authenticate (api.py 175-189): `auth` is _authenticated afterwards
RECURSIVE authenticate(_)
authenticate_both(sc) ==
    LET r1 == async_login_with_saved_state(sc)
        r2 == async_login_with_token(sc)
    IN [result |-> IF r1.raised THEN "raised"
                   ELSE IF r1.ok \/ r2.ok THEN "true" ELSE "false",
        auth |-> r1.auth \/ r2.auth, steps |-> <<"resume", "token">>,
        calls |-> r1.calls \o r2.calls]

authenticate(sc) ==
    LET Second(r1) ==
            LET Result(r2) ==
                    [result |-> IF r2.ok THEN "true" ELSE "false",
                     auth |-> r2.auth, steps |-> <<"resume", "token">>,
                     calls |-> r1.calls \o r2.calls]
            IN With(async_login_with_token(sc), Result)
        First(r1) ==
            IF r1.raised
            THEN [result |-> "raised", auth |-> r1.auth, steps |-> <<"resume">>,
                  calls |-> r1.calls]
            ELSE IF r1.ok
                 THEN [result |-> "true", auth |-> r1.auth, steps |-> <<"resume">>,
                       calls |-> r1.calls]
                 ELSE Second(r1)
    IN With(async_login_with_saved_state(sc), First)

\* a new API object (api.py 48-70): not authenticated, the client empty
InitAuth ==
    \E acct \in {a \in SyncAccounts : \A l \in DOMAIN a : Len(a[l].items) <= 1},
       sc \in AuthScenarios :
        /\ remote = acct
        /\ keepNodes = EmptyMap
        /\ heap = EmptyMap
        /\ keepGen = 0
        /\ authenticated = FALSE
        /\ lastSynced = <<>>
        /\ data = NoneData
        /\ config = CHOOSE c \in InitConfigs : c.list_prefix = <<>>
        /\ registry = EmptyMap
        /\ userNamed = {}
        /\ goodLists = <<>>
        /\ last = NoOp("init")
        /\ edits = MaxEdits
        /\ diffIn = NoDiff
        /\ probe = [fn |-> "auth", done |-> FALSE, sc |-> sc, result |-> "none",
                    steps |-> <<>>, calls |-> <<>>]

\* async_setup_entry calls api.authenticate(); a login that succeeds has
\* loaded the account into the client
ApplyAuth ==
    /\ probe.fn = "auth"
    /\ ~probe.done
    /\ \E r \in {authenticate(probe.sc)} :
          /\ Commit(IF r.auth THEN KeepSync(World) ELSE World, data, goodLists, last)
          /\ authenticated' = (authenticated \/ r.auth)
          /\ probe' = [probe EXCEPT !.done = TRUE, !.result = r.result,
                                    !.steps = r.steps, !.calls = r.calls]
    /\ UNCHANGED <<config, registry, userNamed, edits, diffIn>>

NextAuth == ApplyAuth

SpecAuth == InitAuth /\ [][NextAuth]_vars

----------------------------------------------------------------------------
(* Ticks while entities may be missing from the registry: the platform is set
   up after the first refresh, and not at all when its fetch raises *)

NextUnreg ==
    \/ \E t \in LatchTickInputs : Tick(t.inp, t.fault)
    \/ \E outcome \in AttemptOutcomes : PlatformSetup(outcome)
    \/ \E l \in TwoLists, text \in Texts : RemoteAddItem(l, text)
    \/ \E l \in TwoLists, i \in 1..MaxItems : RemoteToggleItem(l, i)

SpecUnreg == InitEvents /\ [][NextUnreg]_vars

----------------------------------------------------------------------------
(* The entity's to-do view: GoogleKeepTodoListEntity.todo_items *)

\* items of the list an entity shows
MaxViewItems == 2

\* item texts: empty, whitespace only, and with text inside whitespace
ViewTexts == {<<>>, <<" ">>, <<" ", " ">>, <<"a">>, <<" ", "b", " ">>}

\* a view that filters out only the empty texts
todo_items_nonempty(items) ==
    LET RECURSIVE F(_)
        F(s) == IF s = <<>> THEN <<>>
                ELSE (IF Head(s).text # <<>>
                      THEN <<[summary |-> Head(s).text, uid |-> Head(s).id,
                              status |-> IF Head(s).checked THEN "completed"
                                         ELSE "needs_action"]>>
                      ELSE <<>>)
                     \o F(Tail(s))
    IN F(items)

\* the list comprehension of todo_items (todo.py 152-166)
todo_items(items) ==
    LET RECURSIVE F(_)
        F(s) == IF s = <<>> THEN <<>>
                ELSE (IF Head(s).text # <<>> /\ Len(StrStrip(Head(s).text)) > 0
                      THEN <<[summary |-> Head(s).text, uid |-> Head(s).id,
                              status |-> IF Head(s).checked THEN "completed"
                                         ELSE "needs_action"]>>
                      ELSE <<>>)
                     \o F(Tail(s))
    IN F(items)

\* the entity is given a list with up to MaxViewItems items
InitView ==
    \E cfg \in InitConfigs, n \in 0..MaxViewItems :
       \E t \in [1..n -> ViewTexts], c \in [1..n -> BOOLEAN] :
        /\ InitWith(TwoLists, cfg) /\ edits = MaxEdits /\ diffIn = NoDiff
        /\ probe = [fn |-> "view", done |-> FALSE,
                    items |-> [i \in 1..n |-> [id |-> i, text |-> t[i],
                                               checked |-> c[i]]],
                    out |-> <<>>]

\* the property is read
ApplyView ==
    /\ probe.fn = "view"
    /\ ~probe.done
    /\ probe' = [probe EXCEPT !.done = TRUE, !.out = todo_items(probe.items)]
    /\ UNCHANGED <<remote, keepNodes, heap, keepGen, authenticated, lastSynced, data,
                   config, registry, userNamed, edits, goodLists, last, diffIn>>

NextView == ApplyView

SpecView == InitView /\ [][NextView]_vars

----------------------------------------------------------------------------
(* The two update paths of the repository: the coordinator class and the *)
(* update method that async_setup_entry defines                           *)

\* async_update_data of async_setup_entry, called with the coordinator's data
\* being None (is_tuple FALSE) or the (lists, deleted ids) tuple an earlier
\* call returned.  _parse_gkeep_data_dict iterates coordinator.data and reads
\* .items of each element: on the tuple the first element is a python list,
\* the read raises AttributeError, and the except clause raises UpdateFailed.
\* On None both snapshots are empty and nothing is compared.
async_update_data(w, is_tuple, lists_to_sync, inp) ==
    IF is_tuple
    THEN [w |-> w, update_failed |-> TRUE, lists |-> <<>>, deleted |-> <<>>]
    ELSE LET Returned(r) ==
                 [w |-> r.w, update_failed |-> FALSE, lists |-> r.lists,
                  deleted |-> r.deleted]
         IN With(async_sync_data(w, lists_to_sync, FALSE, "no_change", inp),
                 Returned)

UpdatePaths == {"coordinator", "setup_entry"}

\* one of the two coordinators is in use; nothing has been refreshed yet
InitPolicy ==
    \E cfg \in InitConfigs, path \in UpdatePaths :
        /\ InitWith(TwoLists, cfg)
        /\ edits = MaxEdits
        /\ diffIn = NoDiff
        /\ probe = [fn |-> "policy", path |-> path, raised |-> FALSE,
                    update_failed |-> FALSE, is_tuple |-> FALSE,
                    deleted |-> <<>>, prevData |-> NoneData]

\* a refresh of GoogleKeepSyncCoordinator: _async_update_data never raises
PolicyCoordinatorTick(inp, fault) ==
    /\ probe.fn = "policy"
    /\ probe.path = "coordinator"
    /\ TickStep(inp, fault)
    /\ probe' = [probe EXCEPT !.raised = last'.raised # "none",
                              !.update_failed = FALSE, !.prevData = data]

\* a refresh of the DataUpdateCoordinator of async_setup_entry: on
\* UpdateFailed the coordinator keeps its data; otherwise the returned tuple
\* becomes its data
PolicySetupEntryTick(inp) ==
    /\ probe.fn = "policy"
    /\ probe.path = "setup_entry"
    /\ authenticated
    /\ \E r \in {async_update_data(World, probe.is_tuple, config.lists_to_sync, inp)} :
          /\ Commit(r.w,
                    IF r.update_failed THEN data
                    ELSE [isNone |-> FALSE, lists |-> r.lists],
                    goodLists,
                    [NoOp("update") EXCEPT
                       !.raised = IF r.update_failed THEN "parse" ELSE "none",
                       !.lists = r.lists, !.deleted = r.deleted])
          /\ probe' = [probe EXCEPT
                         !.raised = r.update_failed,
                         !.update_failed = r.update_failed,
                         !.is_tuple = TRUE,
                         !.deleted = IF r.update_failed THEN @ ELSE r.deleted,
                         !.prevData = data]
    /\ UNCHANGED <<authenticated, config, registry, userNamed, edits, diffIn>>

NextPolicy ==
    \/ \E t \in TickInputs : PolicyCoordinatorTick(t.inp, t.fault)
    \/ \E inp \in SyncInputs : PolicySetupEntryTick(inp)
    \/ \E outcome \in AttemptOutcomes : PlatformSetup(outcome)
    \/ \E l \in ListIds, text \in Texts : RemoteAddItem(l, text)
    \/ \E l \in ListIds : RemoteDeleteList(l)

SpecPolicy == InitPolicy /\ [][NextPolicy]_vars

----------------------------------------------------------------------------
(* Items added on the server, and the events fired for them over the ticks *)

\* the ticks of SpecMissed: the retried sync succeeds at its first attempt
\* without a full resync, or fails for good; the entity registry or the event
\* bus may raise.  The ticks are the only syncs of these runs and none is a
\* full resync, so the list objects stay the same and change only in a tick.
MissedTickInputs ==
    {t \in TickInputs :
        /\ t.fault.step \in {"none", "names", "fire"}
        /\ t.inp.extra = "ok"
        /\ \E o \in {"ok", "err"} : \A i \in 1..MaxRetries : t.inp.script[i] = o}

\* the number of unchecked items of list object obj
UncheckedCount(obj) ==
    Cardinality({i \in 1..Len(obj.items) : ~obj.items[i].checked})

\* no event has been fired, no list is held
InitMissed ==
    \E cfg \in InitConfigs :
        /\ InitWith(TwoLists, cfg)
        /\ edits = MaxEventEdits
        /\ diffIn = NoDiff
        /\ probe = [fn |-> "missed", fired |-> [l \in TwoLists |-> 0],
                    baseline |-> [l \in TwoLists |-> 0]]

\* a tick, with the books kept per list: `baseline` is the number of unchecked
\* items the list had when it entered coordinator.data, `fired` the number of
\* new-item events fired for it since
MissedTick(inp, fault) ==
    /\ probe.fn = "missed"
    /\ TickStep(inp, fault)
    /\ LET held == {heap[h].id : h \in Range(data.lists)}
           Entered(l) == l \notin held /\ \E h \in Range(data'.lists) : heap'[h].id = l
           ObjectOf(l) == heap'[CHOOSE h \in Range(data'.lists) : heap'[h].id = l]
           Fired(l) == Cardinality({k \in 1..Len(last'.events) : last'.eventLists[k] = l})
       IN probe' = [probe EXCEPT
                      !.baseline = [l \in TwoLists |->
                                      IF Entered(l) THEN UncheckedCount(ObjectOf(l))
                                      ELSE probe.baseline[l]],
                      !.fired = [l \in TwoLists |->
                                   IF Entered(l) THEN 0 ELSE probe.fired[l] + Fired(l)]]

NextMissed ==
    \/ \E t \in MissedTickInputs : MissedTick(t.inp, t.fault)
    \/ \E l \in TwoLists, text \in Texts : RemoteAddItem(l, text)

SpecMissed == InitMissed /\ [][NextMissed]_vars

----------------------------------------------------------------------------
(* The events fired for one item over the ticks *)

\* nothing has been announced
InitOnce ==
    \E cfg \in InitConfigs :
        /\ InitWith(TwoLists, cfg)
        /\ edits = MaxEventEdits
        /\ diffIn = NoDiff
        /\ probe = [fn |-> "once", announced |-> {}, before |-> {}, fired |-> <<>>]

\* the ids of the lists in coordinator data d
HeldLists(d, hp) == {hp[h].id : h \in Range(d.lists)}

\* a tick, with the books kept per item: `fired` are the <<list id, item id>>
\* of the events of this tick, `before` the items announced before the tick
\* that have stayed unchecked on the server, in a list that has stayed in
\* coordinator.data, and `announced` the same after the tick
OnceTick(inp, fault) ==
    /\ probe.fn = "once"
    /\ authenticated
    /\ \E original_lists \in {ParseData(data, heap)} :
       \E synced \in {TickSync(inp)} :
       \E ts \in {TickRest(synced, original_lists, fault)} :
          /\ Commit(ts.w, TickData(ts),
                    IF ts.failed = "no" THEN ts.synced_lists ELSE goodLists,
                    TickObservation(ts))
          /\ config' = ts.config
          /\ registry' = ts.registry
          /\ userNamed' = ts.userNamed
          /\ probe' = [probe EXCEPT
                         !.before = probe.announced,
                         !.fired = ts.event_ids,
                         !.announced =
                             {x \in probe.announced \cup Range(ts.event_ids) :
                                 x[1] \in HeldLists(data', heap')}]
    /\ UNCHANGED <<authenticated, edits, diffIn>>

\* an item of list l is checked or unchecked in the Keep app; an item that is
\* checked has no longer stayed unchecked since its event
OnceToggleItem(l, i) ==
    /\ probe.fn = "once"
    /\ edits > 0
    /\ edits' = edits - 1
    /\ l \in DOMAIN remote
    /\ i \in 1..Len(remote[l].items)
    /\ remote' = [remote EXCEPT ![l].items[i].checked = ~@]
    /\ last' = NoOp("remote")
    /\ probe' = [probe EXCEPT !.announced = @ \ {<<l, remote[l].items[i].id>>}]
    /\ UNCHANGED <<keepNodes, heap, keepGen, authenticated, lastSynced, data,
                   config, registry, userNamed, goodLists, diffIn>>

\* the ticks of SpecOnce: the retried sync has the same outcome at every
\* attempt, the additional sync may fail, and the entity registry or the event
\* bus may raise
OnceTickInputs ==
    {t \in TickInputs :
        /\ t.fault.step \in {"none", "names", "fire"}
        /\ \A i \in 1..MaxRetries : t.inp.script[i] = t.inp.script[1]}

NextOnce ==
    \/ \E t \in OnceTickInputs : OnceTick(t.inp, t.fault)
    \/ \E outcome \in {"ok", "resync_ok"} : PlatformSetup(outcome)
    \/ \E l \in TwoLists : RemoteAddItem(l, <<"A">>)
    \/ \E l \in TwoLists, i \in 1..MaxItems : OnceToggleItem(l, i)

SpecOnce == InitOnce /\ [][NextOnce]_vars

----------------------------------------------------------------------------
(* An item created through the entity, and the refresh that follows *)

NoItem == <<>>

\* the entities may be registered; nothing has been created
InitCreate ==
    \E cfg \in InitConfigs :
        /\ InitWith(TwoLists, cfg)
        /\ edits = MaxEntityOps
        /\ diffIn = NoDiff
        /\ probe = [fn |-> "create", pc |-> "idle", item |-> NoItem,
                    fired |-> <<>>, current |-> FALSE, inBefore |-> FALSE]

\* a refresh that no create operation has requested
CreateTimerTick(inp, fault) ==
    /\ probe.fn = "create"
    /\ probe.pc # "created"
    /\ TickStep(inp, fault)
    /\ probe' = [probe EXCEPT !.pc = "idle"]

\* the entity platform is set up
CreateSetup(outcome) ==
    /\ probe.fn = "create"
    /\ probe.pc # "created"
    /\ PlatformSetup(outcome)

\* todo.add_item reaches the entity of list l: async_create_todo_item up to
\* its refresh.  `item` is the <<list id, item id>> of the item the client
\* call has created, NoItem when the call raised.
CreateItem(l, text, fails) ==
    /\ probe.fn = "create"
    /\ probe.pc # "created"
    /\ edits > 0
    /\ edits' = edits - 1
    /\ l \in DOMAIN registry
    /\ l \in DOMAIN keepNodes => Len(heap[keepNodes[l]].items) < MaxItems
    /\ \E r \in {entity_create_todo_item(authenticated, World, l, text, fails)} :
          /\ Commit(r.w, data, goodLists, NoOp("entity"))
          /\ probe' = [probe EXCEPT
                         !.pc = "created",
                         !.item = IF r.attempts[1] THEN NoItem
                                  ELSE <<l, NewItemId(heap[keepNodes[l]].items)>>,
                         !.fired = <<>>, !.current = FALSE, !.inBefore = FALSE]
    /\ UNCHANGED <<authenticated, config, registry, userNamed, diffIn>>

\* the refresh in the finally clause of async_create_todo_item: a tick.
\* `current`: coordinator.data holds the client's object of the list at the
\* start; `inBefore`: the before snapshot has the created item; `fired`: the
\* <<list id, item id>> of the events of the tick.
CreateRefresh(inp, fault) ==
    /\ probe.fn = "create"
    /\ probe.pc = "created"
    /\ authenticated
    /\ \E original_lists \in {ParseData(data, heap)} :
       \E synced \in {TickSync(inp)} :
       \E ts \in {TickRest(synced, original_lists, fault)} :
          /\ Commit(ts.w, TickData(ts),
                    IF ts.failed = "no" THEN ts.synced_lists ELSE goodLists,
                    TickObservation(ts))
          /\ config' = ts.config
          /\ registry' = ts.registry
          /\ userNamed' = ts.userNamed
          /\ probe' = [probe EXCEPT
                         !.pc = "refreshed",
                         !.fired = ts.event_ids,
                         !.current =
                             /\ probe.item # NoItem
                             /\ probe.item[1] \in DOMAIN keepNodes
                             /\ keepNodes[probe.item[1]] \in Range(data.lists),
                         !.inBefore =
                             /\ probe.item # NoItem
                             /\ probe.item[1] \in SnapKeys(original_lists)
                             /\ probe.item[2] \in
                                   ItemKeys(SnapGet(original_lists, probe.item[1]))]
    /\ UNCHANGED <<authenticated, edits, diffIn>>

NextCreate ==
    \/ \E t \in OnceTickInputs : CreateTimerTick(t.inp, t.fault)
    \/ \E outcome \in {"ok", "resync_ok"} : CreateSetup(outcome)
    \/ \E l \in TwoLists, text \in EntityTexts, fails \in BOOLEAN :
          CreateItem(l, text, fails)
    \/ \E t \in OnceTickInputs : CreateRefresh(t.inp, t.fault)

SpecCreate == InitCreate /\ [][NextCreate]_vars

----------------------------------------------------------------------------
(* The options flow: the selection of lists changes while the integration runs *)

\* the selections a user may submit
OptionLists == {<<"L1">>, <<"L2">>, <<"L1", "L2">>, <<"L2", "L1">>}

InitOptions ==
    \E cfg \in InitConfigs :
        /\ InitWith(TwoLists, cfg)
        /\ edits = MaxEdits
        /\ diffIn = NoDiff
        /\ probe = [fn |-> "options", reloading |-> FALSE]

\* the ticks of SpecOptions: the retried sync succeeds at its first attempt
\* or fails for good, and no other collaborator raises
OptionsTickInputs ==
    {t \in LatchTickInputs : \A i \in 1..MaxRetries : t.inp.script[i] \in {"ok", "err"}}

\* a refresh of the coordinator that is set up
OptionsTick(inp, fault) ==
    /\ probe.fn = "options"
    /\ TickStep(inp, fault)
    /\ UNCHANGED probe

\* OptionsFlowHandler.async_step_init with user input, up to its await of the
\* reload: the new selection is written to the config entry
OptionsSubmit(lists) ==
    /\ probe.fn = "options"
    /\ ~probe.reloading
    /\ edits > 0
    /\ edits' = edits - 1
    /\ lists # config.lists_to_sync
    /\ config' = [config EXCEPT !.lists_to_sync = lists]
    /\ probe' = [probe EXCEPT !.reloading = TRUE]
    /\ last' = NoOp("options")
    /\ UNCHANGED <<remote, keepNodes, heap, keepGen, authenticated, lastSynced, data,
                   registry, userNamed, goodLists, diffIn>>

\* the reload the options flow awaits: the entry is unloaded and set up again,
\* with a new GoogleKeepAPI (an empty cache, a client that loads the account
\* anew) and a new coordinator
OptionsReload ==
    /\ probe.fn = "options"
    /\ probe.reloading
    /\ \E w \in {KeepSync(KeepClear(World))} :
          Commit([w EXCEPT !.lastSynced = <<>>], NoneData, <<>>, NoOp("reload"))
    /\ userNamed' = {}
    /\ probe' = [probe EXCEPT !.reloading = FALSE]
    /\ UNCHANGED <<authenticated, config, registry, edits, diffIn>>

NextOptions ==
    \/ \E t \in OptionsTickInputs : OptionsTick(t.inp, t.fault)
    \/ \E lists \in OptionLists : OptionsSubmit(lists)
    \/ OptionsReload
    \/ \E l \in TwoLists, text \in Texts : RemoteAddItem(l, text)

SpecOptions == InitOptions /\ [][NextOptions]_vars

----------------------------------------------------------------------------
(* async_delete_todo_items as a function of the list, the uids and the failure *)

\* the longest list of uids handed to one delete operation
MaxDeleteUids == 2

\* the uids of an operation: ids of items of the list or not, some twice
UidLists ==
    UNION {[1..n -> 1..(MaxItems + 1)] : n \in 1..MaxDeleteUids}

\* the entity of L1 is called with the uids probe.uids; the client's delete
\* of the probe.failsAt-th raises (0: none does)
InitDelete ==
    \E it \in SyncItems, uids \in UidLists, failsAt \in 0..MaxDeleteUids,
       auth \in BOOLEAN :
        LET acct == [l \in TwoLists |->
                        [title |-> <<"T">>, items |-> IF l = "L1" THEN it ELSE <<>>]]
        IN /\ remote = acct
           /\ keepNodes = [l \in TwoLists |-> <<l, 0>>]
           /\ heap = [h \in {<<l, 0>> : l \in TwoLists} |-> NodeOf(h[1], acct[h[1]])]
           /\ keepGen = 0
           /\ authenticated = auth
           /\ lastSynced = <<>>
           /\ data = NoneData
           /\ config \in InitConfigs
           /\ registry = EmptyMap
           /\ userNamed = {}
           /\ goodLists = <<>>
           /\ last = NoOp("init")
           /\ edits = MaxEdits
           /\ diffIn = NoDiff
           /\ probe = [fn |-> "delete", done |-> FALSE, uids |-> uids,
                       failsAt |-> failsAt, items |-> it, log |-> <<>>]

\* one call of the entity's async_delete_todo_items, up to and including its
\* request of a refresh
ApplyDelete ==
    /\ probe.fn = "delete"
    /\ ~probe.done
    /\ \E r \in {delete_todo_items_loop(authenticated, World, "L1", probe.uids,
                                        probe.failsAt)} :
       \E out \in {entity_delete_todo_items(authenticated, World, "L1", probe.uids,
                                            probe.failsAt)} :
          /\ Commit(out.w, data, goodLists, NoOp("entity"))
          /\ probe' = [probe EXCEPT
                         !.done = TRUE,
                         !.log = r.log \o (IF out.refresh
                                           THEN <<[call |-> "refresh", uid |-> 0,
                                                   raised |-> FALSE]>>
                                           ELSE <<>>)]
    /\ UNCHANGED <<authenticated, config, registry, userNamed, edits, diffIn>>

NextDelete == ApplyDelete

SpecDelete == InitDelete /\ [][NextDelete]_vars

----------------------------------------------------------------------------
(* async_update_todo_item as a function of the account and its arguments *)

\* the API object holds the account acct; async_update_todo_item is called
\* with a list id and an item id that exist or not
InitUpdate ==
    \E acct \in SyncAccounts, list_id \in TwoLists, item_id \in 1..(MaxItems + 1),
       new_text \in EntityTexts, checked \in BOOLEAN :
        /\ remote = acct
        /\ keepNodes = [l \in DOMAIN acct |-> <<l, 0>>]
        /\ heap = [h \in {<<l, 0>> : l \in DOMAIN acct} |-> NodeOf(h[1], acct[h[1]])]
        /\ keepGen = 0
        /\ authenticated = TRUE
        /\ lastSynced = <<>>
        /\ data = NoneData
        /\ config \in InitConfigs
        /\ registry = EmptyMap
        /\ userNamed = {}
        /\ goodLists = <<>>
        /\ last = NoOp("init")
        /\ edits = MaxEdits
        /\ diffIn = NoDiff
        /\ probe = [fn |-> "update", done |-> FALSE, list_id |-> list_id,
                    item_id |-> item_id, new_text |-> new_text, checked |-> checked,
                    raised |-> FALSE, before |-> EmptyMap, server |-> acct]

\* one call of GoogleKeepAPI.async_update_todo_item; `before` are the list
\* objects of the client as they were before the call
ApplyUpdate ==
    /\ probe.fn = "update"
    /\ ~probe.done
    /\ \E r \in {async_update_todo_item(authenticated, World, probe.list_id,
                                        probe.item_id, probe.new_text,
                                        probe.checked)} :
          /\ remote' = r.w.remote
          /\ keepNodes' = r.w.keepNodes
          /\ heap' = r.w.heap
          /\ keepGen' = r.w.keepGen
          /\ lastSynced' = r.w.lastSynced
          /\ probe' = [probe EXCEPT !.done = TRUE, !.raised = r.raised,
                                    !.before = heap]
    /\ UNCHANGED <<authenticated, data, config, registry, userNamed, edits,
                   goodLists, last, diffIn>>

NextUpdate == ApplyUpdate

SpecUpdate == InitUpdate /\ [][NextUpdate]_vars

----------------------------------------------------------------------------
(* exponential_backoff.wrapper for any max_retries *)

\* what one call of the wrapped function does: return a value or raise
FuncOutcomes ==
    {[raises |-> FALSE, what |-> "v1"], [raises |-> FALSE, what |-> "v2"],
     [raises |-> TRUE, what |-> "e1"], [raises |-> TRUE, what |-> "e2"]}

\* Python's None, returned by a function that falls off its end
NoneValue == [raises |-> FALSE, what |-> "None"]

RECURSIVE wrapper(_, _, _)
\* exponential_backoff.wrapper from the attempt with zero-based index
\* `attempt`, `for attempt in range(max_retries)`: return what func returns,
\* go on after an exception unless the attempt is the last, then re-raise; a
\* loop that ends without returning or raising falls off the end of the
\* function.  [calls, from, raises, what]: the calls of func made, the call
\* (from 1) whose outcome is the wrapper's, 0 for none
wrapper(max_retries, outcomes, attempt) ==
    IF attempt >= max_retries
    THEN [calls |-> attempt, from |-> 0, raises |-> NoneValue.raises,
          what |-> NoneValue.what]
    ELSE LET r == outcomes[attempt + 1]
         IN IF ~r.raises
            THEN [calls |-> attempt + 1, from |-> attempt + 1, raises |-> FALSE,
                  what |-> r.what]
            ELSE IF attempt < max_retries - 1
                 THEN wrapper(max_retries, outcomes, attempt + 1)
                 ELSE [calls |-> attempt + 1, from |-> attempt + 1, raises |-> TRUE,
                       what |-> r.what]

\* a function decorated with exponential_backoff(max_retries=n), and what
\* each of its calls will do
InitWrapper ==
    /\ InitWith(TwoLists, CHOOSE cfg \in InitConfigs : TRUE)
    /\ edits = MaxEdits
    /\ diffIn = NoDiff
    /\ \E n \in 0..MaxWrapperRetries :
       \E outcomes \in [1..n -> FuncOutcomes] :
          probe = [fn |-> "wrapper", done |-> FALSE, max_retries |-> n,
                   outcomes |-> outcomes, calls |-> 0, from |-> 0,
                   raises |-> FALSE, what |-> "pending"]

\* one call of the decorated function
ApplyWrapper ==
    /\ probe.fn = "wrapper"
    /\ ~probe.done
    /\ \E r \in {wrapper(probe.max_retries, probe.outcomes, 0)} :
          probe' = [probe EXCEPT !.done = TRUE, !.calls = r.calls, !.from = r.from,
                                 !.raises = r.raises, !.what = r.what]
    /\ UNCHANGED <<remote, keepNodes, heap, keepGen, authenticated, lastSynced, data,
                   config, registry, userNamed, edits, goodLists, last, diffIn>>

NextWrapper == ApplyWrapper

SpecWrapper == InitWrapper /\ [][NextWrapper]_vars

----------------------------------------------------------------------------
(* Properties of the Sync Engine and of the tick *)

\* C1: a Sync Engine call whose remote sync raises after its retries are
\* exhausted returns the list set returned by the most recent earlier call that
\* succeeded (the empty list if there was none) and an empty disappeared list
C1_FailedSyncReturnsCached ==
    (last.op = "tick" /\ last.failed = "sync") =>
        /\ last.lists = goodLists
        /\ last.deleted = <<>>

\* a failed sync after a call that succeeded with some lists
C1_Witness ==
    /\ last.op = "tick"
    /\ last.failed = "sync"
    /\ goodLists # <<>>
    /\ last.lists = goodLists

\* C2: a tick changes lists_to_sync and removes entities only when its Sync
\* Engine pass did not fail, and only for ids that get() does not resolve; a tick
\* whose fetch failed leaves lists_to_sync unchanged and removes no entity
C2_RemovalOnlyOnConfirmedDeletion ==
    last.op = "tick" =>
        LET dropped == Range(last.prevConfig.lists_to_sync) \ Range(config.lists_to_sync)
            unregistered == last.prevReg \ DOMAIN registry
        IN /\ (config # last.prevConfig \/ unregistered # {} \/ last.removed # <<>>)
                  => last.failed = "no"
           /\ (dropped \cup unregistered) \cap DOMAIN keepNodes = {}
           /\ last.failed # "no" =>
                  /\ config.lists_to_sync = last.prevConfig.lists_to_sync
                  /\ DOMAIN registry = last.prevReg

\* a tick that dropped an id from lists_to_sync and removed its entity
C2_Witness ==
    /\ last.op = "tick"
    /\ config.lists_to_sync # last.prevConfig.lists_to_sync
    /\ last.prevReg \ DOMAIN registry # {}

\* C3: in a pass that does not fail, the returned lists are the objects get()
\* resolves for the requested ids, in request order, the disappeared list is
\* the requested ids get() does not resolve, in request order, and the two
\* counts add up to the number of requested ids
C3_ReturnedAndDisappearedPartition ==
    (last.op = "tick" /\ last.failed = "no") =>
        LET requested == last.prevConfig.lists_to_sync
            resolved == SeqFilter(requested, DOMAIN keepNodes)
        IN /\ Len(last.lists) = Len(resolved)
           /\ \A i \in 1..Len(resolved) :
                  /\ last.lists[i] = keepNodes[resolved[i]]
                  /\ heap[last.lists[i]].id = resolved[i]
           /\ last.deleted = SeqFilter(requested, Range(requested) \ DOMAIN keepNodes)
           /\ Len(last.lists) + Len(last.deleted) = Len(requested)

\* a pass in which an id that does not resolve precedes one that does
C3_Witness ==
    /\ last.op = "tick"
    /\ last.failed = "no"
    /\ \E i, j \in 1..Len(last.prevConfig.lists_to_sync) :
          /\ i < j
          /\ last.prevConfig.lists_to_sync[i] \in Range(last.deleted)
          /\ last.prevConfig.lists_to_sync[j] \in {heap[h].id : h \in Range(last.lists)}

C5_FailedFetchDropsNoList ==
    (last.op = "tick" /\ last.failed = "sync") =>
        {h[1] : h \in Range(last.prevData.lists)} \subseteq {h[1] : h \in Range(data.lists)}

\* C6: _get_new_items_added returns one entry for every pair (list L, item i)
\* with L a key of both snapshots and i an item of the updated L that is not an
\* item of the original L, and no other entry; the entry carries the item's
\* text in the updated snapshot and the entity id registered for L; identical
\* snapshots give no entry
C6_DiffIsNewItemsOfSharedLists ==
    diffIn.done =>
        LET o == diffIn.original
            u == diffIn.updated
            pairs == UNION {{<<L, i>> : i \in ItemKeys(SnapGet(u, L)) \ ItemKeys(SnapGet(o, L))} :
                            L \in SnapKeys(o) \cap SnapKeys(u)}
            TextOf(L, i) ==
                LET items == SnapGet(u, L).items
                IN items[CHOOSE k \in 1..Len(items) : items[k].id = i].summary
            Entry(q) == [item |-> TextOf(q[1], q[2]),
                         entity_id |-> IF q[1] \in DOMAIN diffIn.reg
                                       THEN diffIn.reg[q[1]].entity_id ELSE NoEntityId]
        IN /\ \A q \in pairs :
                  Cardinality({k \in 1..Len(diffIn.result) : diffIn.result[k] = Entry(q)}) = 1
           /\ Len(diffIn.result) = Cardinality(pairs)
           /\ (o = u => diffIn.result = <<>>)

\* a diff with new items in two lists, one of which also keeps an item
C6_Witness ==
    /\ diffIn.done
    /\ \E j, k \in 1..Len(diffIn.result) : diffIn.result[j].item[1] # diffIn.result[k].item[1]
    /\ \E k \in 1..Len(diffIn.updated) :
          Len(diffIn.updated[k].items) > 1
          /\ diffIn.updated[k].id \in SnapKeys(diffIn.original)
          /\ ItemKeys(SnapGet(diffIn.original, diffIn.updated[k].id)) # {}

\* C8: a list of the updated snapshot that is not in the original snapshot
\* contributes no entry, whatever its items; an empty original snapshot (the
\* first tick) gives no entry
C8_NewListContributesNothing ==
    diffIn.done =>
        /\ \A k \in 1..Len(diffIn.result) :
               diffIn.result[k].item[1] \in SnapKeys(diffIn.original)
        /\ (diffIn.original = <<>> => diffIn.result = <<>>)

\* a diff in which a list with items is only in the updated snapshot while
\* another list has a new item
C8_Witness ==
    /\ diffIn.done
    /\ diffIn.result # <<>>
    /\ \E k \in 1..Len(diffIn.updated) :
          /\ diffIn.updated[k].id \notin SnapKeys(diffIn.original)
          /\ diffIn.updated[k].items # <<>>

\* C7: in a tick that completes without exception the events fired are the diff
\* between the before snapshot and the snapshot of the lists the Sync Engine
\* returned in that tick
C7_EventsAreDiffOfReturned ==
    (last.op = "tick" /\ last.raised = "none") => last.events = last.diffOfReturned

\* C11: no new-item event fired in a tick comes from a list whose id is in
\* that tick's disappeared list
C11_NoEventForDisappearedList ==
    last.op = "tick" => Range(last.eventLists) \cap Range(last.deleted) = {}

\* a tick that fires an event for one list while another list, which the
\* coordinator held with an unchecked item, has disappeared
C11_Witness ==
    /\ last.op = "tick"
    /\ last.events # <<>>
    /\ Len(last.eventLists) = Len(last.events)
    /\ \E l \in Range(last.deleted) :
          l \in {h[1] : h \in Range(last.prevData.lists)}

\* the lists that a call of _update_entity_names has processed
NamesDone == probe.fn = "names" /\ probe.done
NamesProcessed ==
    {probe.synced[i][1] : i \in
        {i \in 1..Len(probe.synced) : ~probe.out.raised \/ i < probe.fault}}

\* C12: name reconciliation never writes the registry name of an entity whose
\* user-set name is non-empty, whatever the remote title and the prefix, and
\* records the entity id in the set of user-named entities
C12_UserNamedNeverWritten ==
    NamesDone =>
        \A l \in DOMAIN probe.registry :
            probe.registry[l].name # <<>> =>
                /\ probe.out.registry[l] = probe.registry[l]
                /\ probe.registry[l].entity_id \notin Range(probe.out.writes)
                /\ l \in NamesProcessed =>
                       probe.registry[l].entity_id \in probe.out.userNamed

\* a call that found a user-named entity whose registry name differs from the
\* name the remote title and the prefix give, and that was not yet recorded
C12_Witness ==
    /\ NamesDone
    /\ ~probe.out.raised
    /\ \E l \in DOMAIN probe.registry :
          /\ probe.registry[l].name # <<>>
          /\ probe.registry[l].original_name
                 # NewName(probe.prefix, probe.titles[l])
          /\ probe.registry[l].entity_id \notin probe.userNamed
          /\ probe.registry[l].entity_id \in probe.out.userNamed

\* the retried call has returned or raised
RetryDone == probe.fn = "retry" /\ probe.done
\* positions of the log with an entry of kind e, and the attempts that ran
LogAt(e) == {i \in 1..Len(probe.log) : probe.log[i].ev = e}
Called == {probe.log[i].n : i \in LogAt("call")}
\* the attempt's body returned: its sync(), or its forced sync(True), succeeded
Succeeds(k) == probe.script[k] \in {"ok", "resync_ok"}

\* C15: the retry wrapper terminates having called the wrapped function at
\* most max_retries times; it returns at the first call that succeeds, calling
\* no more, and when every call raised it raises the exception of the last one
C15_RetryBounded ==
    RetryDone =>
        /\ Cardinality(LogAt("call")) = probe.attempts
        /\ probe.attempts \in 1..MaxRetries
        /\ Called = 0..(probe.attempts - 1)
        /\ \A k \in 1..(probe.attempts - 1) : ~Succeeds(k)
        /\ probe.ok <=> Succeeds(probe.attempts)
        /\ probe.ok => probe.error = 0
        /\ ~probe.ok => probe.attempts = MaxRetries /\ probe.error = MaxRetries

\* a call that succeeded at an attempt after the first and before the last
C15_Witness ==
    /\ RetryDone
    /\ probe.ok
    /\ probe.attempts \in 2..(MaxRetries - 1)
    /\ \E k \in (probe.attempts + 1)..MaxRetries : Succeeds(k)

\* the delays slept, in order
Sleeps ==
    LET at == SeqFilter([i \in 1..Len(probe.log) |-> i], LogAt("sleep"))
        F(i) == probe.log[at[i]].n
    IN Map(Len(at), F)

\* C16: the wrapper sleeps exactly once between two consecutive attempts and
\* never after the last; the sleep after the failed attempt k (from 0) is
\* base_delay * backoff_factor ** k: 1, 3, 9, 27 for the remote sync
C16_SleepsBetweenAttempts ==
    RetryDone =>
        /\ Len(Sleeps) = probe.attempts - 1
        /\ Sleeps = SubSeq(<<1, 3, 9, 27>>, 1, probe.attempts - 1)
        /\ \A k \in 0..(Len(Sleeps) - 1) :
              Sleeps[k + 1] = BaseDelay * Pow(BackoffFactor, k)
        /\ probe.log[Len(probe.log)].ev # "sleep"
        /\ \A i \in LogAt("sleep") :
              /\ i > 1 /\ probe.log[i - 1].ev # "sleep"
              /\ probe.log[i + 1] = Ev("call", probe.log[i - 1].n + 1)
        /\ \A i \in LogAt("call") : i > 1 => probe.log[i - 1].ev = "sleep"

\* a call whose every attempt raised
C16_Witness ==
    /\ RetryDone
    /\ ~probe.ok
    /\ probe.attempts = MaxRetries
    /\ Len(Sleeps) = MaxRetries - 1

\* C17: when sync() raises ResyncRequiredException inside the retried call,
\* exactly one sync(True) is issued at once, with no sleep before it, and if
\* it succeeds the retried call succeeds with that single attempt
C17_ResyncHandledInAttempt ==
    RetryDone =>
        /\ \A k \in Called :
              LET full == {i \in LogAt("sync_full") : probe.log[i].n = k}
                  plain == {i \in LogAt("sync") : probe.log[i].n = k}
              IN /\ Cardinality(plain) = 1
                 /\ IF probe.script[k + 1] \in {"resync_ok", "resync_err"}
                    THEN \E i \in plain : full = {i + 1}
                    ELSE full = {}
        /\ probe.script[1] = "resync_ok" =>
              /\ probe.ok
              /\ probe.attempts = 1
              /\ probe.log = <<Ev("call", 0), Ev("sync", 0), Ev("sync_full", 0)>>
        /\ \A k \in Called :
              probe.script[k + 1] = "resync_ok" => probe.ok /\ probe.attempts = k + 1

\* a call whose first sync() raised ResyncRequiredException and whose forced
\* full resync succeeded
C17_Witness ==
    /\ RetryDone
    /\ probe.script[1] = "resync_ok"
    /\ probe.ok
    /\ Cardinality(LogAt("sync_full")) = 1

\* a pass of the Sync Engine has returned
SyncDone == probe.fn = "sync" /\ probe.done
\* positions of the log of the pass with an entry of kind e
PassAt(e) == {i \in 1..Len(probe.log) : probe.log[i].ev = e}
\* the lists of the pass that the client resolved
PassLists == Range(config.lists_to_sync) \cap DOMAIN probe.account

\* C18: a ResyncRequiredException raised by any sync() of a pass, the
\* additional sync() after local changes included, is handled by one forced
\* full resync issued at once and never makes the pass fall back to the cached
\* lists: the pass goes on to cache and return its result
C18_ResyncTransparent ==
    SyncDone =>
        /\ (\E k \in 1..MaxRetries :
                /\ probe.inp.script[k] = "resync_ok"
                /\ \A j \in 1..(k - 1) : probe.inp.script[j] \notin {"ok", "resync_ok"})
              => ~probe.failed
        /\ (PassAt("extra_sync") # {} /\ probe.inp.extra = "resync") =>
              /\ ~probe.failed
              /\ \A i \in PassAt("extra_sync") :
                    i < Len(probe.log) /\ probe.log[i + 1].ev = "cache"

\* the texts at positions i < j are in ascending order without their case,
\* for every pair of unchecked items
InOrderIgnoringCase(items) ==
    \A i, j \in 1..Len(items) :
        (i < j /\ ~items[i].checked /\ ~items[j].checked) =>
            StrLeq(StrLower(items[i].text), StrLower(items[j].text))

\* a text of the list is not what the case option makes of it
CaseWouldChange(items, case_type) ==
    \E i \in 1..Len(items) :
        CASE case_type = "upper" -> items[i].text # StrUpper(items[i].text)
          [] case_type = "lower" -> items[i].text # StrLower(items[i].text)
          [] case_type = "sentence" -> items[i].text # StrCapitalize(items[i].text)
          [] case_type = "title" -> items[i].text # StrTitle(items[i].text)
          [] OTHER -> FALSE

\* the list l of the pass is changed by the pass: by the case option or by the
\* sort
PassChanges(l) ==
    \/ CaseWouldChange(probe.account[l].items, config.list_item_case)
    \/ config.list_auto_sort /\ ~InOrderIgnoringCase(probe.account[l].items)

\* C19: with sorting enabled, a list whose unchecked items are already in
\* ascending order without their case (equal texts count as ordered) is not
\* sorted by the pass, and no additional sync() is issued on its account
C19_SortedListNotSorted ==
    (SyncDone /\ ~probe.exhausted /\ config.list_auto_sort) =>
        \A l \in PassLists :
            InOrderIgnoringCase(probe.account[l].items) =>
                /\ Op("sort", l) \notin Range(probe.log)
                /\ (\A m \in PassLists :
                       /\ ~CaseWouldChange(probe.account[m].items, config.list_item_case)
                       /\ InOrderIgnoringCase(probe.account[m].items))
                     => PassAt("extra_sync") = {}

\* a pass with sorting enabled over a list of two unchecked items whose texts
\* are equal without their case
C19_Witness ==
    /\ SyncDone
    /\ ~probe.failed
    /\ config.list_auto_sort
    /\ config.list_item_case = "no_change"
    /\ "L1" \in PassLists
    /\ Len(probe.account["L1"].items) = 2
    /\ \A i \in 1..2 : ~probe.account["L1"].items[i].checked
    /\ probe.account["L1"].items[1].text = <<"b">>
    /\ probe.account["L1"].items[2].text = <<"B">>
    /\ PassAt("extra_sync") = {}

\* C20: in a pass that does not fail the additional sync() is issued exactly
\* once if the case option changed a text of a requested list or a requested
\* list was sorted, and not at all otherwise; it comes after every requested
\* list was processed and before the result is cached and returned
C20_ExtraSyncOnceAfterLoop ==
    (SyncDone /\ ~probe.failed) =>
        /\ Cardinality(PassAt("extra_sync"))
              = IF \E l \in PassLists : PassChanges(l) THEN 1 ELSE 0
        /\ PassAt("cache") = {Len(probe.log)}
        /\ \A i \in PassAt("extra_sync") :
              /\ i = Len(probe.log) - 1
              /\ \A l \in Range(config.lists_to_sync) :
                    \E j \in 1..(i - 1) :
                        probe.log[j] \in {Op("append", l), Op("deleted", l)}
              /\ \A j \in PassAt("get") \cup PassAt("case") \cup PassAt("sort") : j < i

\* a pass that changed both of its lists, the first by the sort and the second
\* by the case option
C20_Witness ==
    /\ SyncDone
    /\ ~probe.failed
    /\ Cardinality({l \in PassLists : PassChanges(l)}) = 2
    /\ PassAt("sort") # {}
    /\ Cardinality(PassAt("extra_sync")) = 1

\* C22: the case transform is idempotent for every mode, and change_list_case
\* reports a change only when the text of at least one item differs after the
\* transform
C22_CaseTransformIdempotent ==
    (probe.fn = "case" /\ probe.done) =>
        /\ probe.twice = probe.once
        /\ Len(probe.after) = Len(probe.items)
        /\ probe.list_changed =>
              \E i \in 1..Len(probe.items) :
                  probe.after[i].text # probe.items[i].text
        /\ \A i \in 1..Len(probe.items) :
              /\ probe.after[i].id = probe.items[i].id
              /\ probe.after[i].checked = probe.items[i].checked

\* a text that the title mode changes, with a list in which it changes one
\* item and leaves another
C22_Witness ==
    /\ probe.fn = "case" /\ probe.done
    /\ probe.mode = "title"
    /\ probe.once # probe.x
    /\ Len(probe.x) = MaxCaseLen
    /\ probe.list_changed
    /\ \E i \in 1..Len(probe.items) : probe.after[i].text = probe.items[i].text

\* C21: after a call of async_sync_data that succeeded, a second call with the
\* same sort flag and case mode and no remote change in between changes no
\* item text, invokes no sort and issues no additional sync()
C21_SecondPassChangesNothing ==
    (probe.fn = "sync_again" /\ ~probe.first.failed) =>
        /\ probe.after.remote = probe.before.remote
        /\ \A l \in DOMAIN probe.after.client :
              probe.after.client[l] = probe.after.remote[l]
        /\ \A l \in DOMAIN probe.before.client :
              probe.before.client[l] = probe.before.remote[l]
        /\ \A i \in 1..Len(probe.log) :
              probe.log[i].ev \notin {"sort", "extra_sync"}
        /\ probe.sortCalls = 0

\* a second call that succeeded, after a first one that changed a text and
\* sorted a list
C21_Witness ==
    /\ probe.fn = "sync_again"
    /\ ~probe.first.failed
    /\ ~probe.failed
    /\ \E i, j \in 1..Len(probe.first.log) :
          probe.first.log[i].ev = "sort" /\ probe.first.log[j].ev = "extra_sync"
    /\ \E l \in DOMAIN probe.first.account \cap DOMAIN probe.before.remote :
          \E i \in 1..Len(probe.first.account[l].items) :
              probe.first.account[l].items[i].text # probe.before.remote[l][i].text

\* the name an entity is displayed with: the user-set name, else the name the
\* integration gave it
DisplayName(e) == IF e.name # <<>> THEN e.name ELSE e.original_name

\* C13: once a tick has detected an entity as named by the user (its id is in
\* the set of user-named entities), no later tick changes the entity's display
\* name, also when the user-set name was cleared after the detection
C13_UserRenameLatch ==
    [][\A l \in DOMAIN registry \cap DOMAIN registry' :
          (last'.op = "tick" /\ registry[l].entity_id \in userNamed) =>
              DisplayName(registry'[l]) = DisplayName(registry[l])]_vars

\* t is s without the blanks at its ends
IsTrimOf(t, s) ==
    /\ t = <<>> \/ (t[1] # " " /\ t[Len(t)] # " ")
    /\ \E i \in 0..Len(s), j \in 0..Len(s) :
          /\ i + Len(t) + j = Len(s)
          /\ \A k \in 1..i : s[k] = " "
          /\ \A k \in 1..j : s[i + Len(t) + k] = " "
          /\ \A k \in 1..Len(t) : s[i + k] = t[k]

\* C14: after the reconciliation the registry name of every returned list
\* whose entity is registered with no user-set name is the trimmed
\* "<prefix> <remote title>"; the registry is written only for a name that
\* differs; a returned list with no registered entity is skipped without an
\* error and without stopping the lists after it
C14_RegistryNameFollowsTitle ==
    NamesDone =>
        /\ \A l \in NamesProcessed \cap DOMAIN probe.registry :
              probe.registry[l].name = <<>> =>
                 /\ IsTrimOf(probe.out.registry[l].original_name,
                             probe.prefix \o <<" ">> \o probe.titles[l])
                 /\ probe.out.registry[l].name = <<>>
        /\ \A l \in DOMAIN probe.registry :
              /\ l \in DOMAIN probe.out.registry
              /\ probe.registry[l].entity_id \in Range(probe.out.writes)
                   <=> probe.out.registry[l].original_name
                         # probe.registry[l].original_name
              /\ Cardinality({i \in 1..Len(probe.out.writes) :
                      probe.out.writes[i] = probe.registry[l].entity_id}) <= 1
        /\ probe.out.raised <=> probe.fault \in 1..Len(probe.synced)
        /\ \A l \in TwoLists \ DOMAIN probe.registry :
              l \notin DOMAIN probe.out.registry

\* a call whose first list has no entity and whose second list, with no
\* user-set name, gets a new registry name
C14_Witness ==
    /\ NamesDone
    /\ ~probe.out.raised
    /\ Len(probe.synced) = 2
    /\ probe.synced[1][1] \notin DOMAIN probe.registry
    /\ probe.synced[2][1] \in DOMAIN probe.registry
    /\ probe.registry[probe.synced[2][1]].name = <<>>
    /\ probe.out.writes = <<EntityIdOf(probe.synced[2][1])>>
    /\ probe.out.registry[probe.synced[2][1]].original_name
          # probe.registry[probe.synced[2][1]].original_name

\* C9: in a tick with a non-empty disappeared list D in which no step raises,
\* the entity of every id of D that has one is removed once, in the order of D,
\* no other entity is removed, lists_to_sync becomes the previous sequence
\* without the ids of D, the other configuration keys are unchanged, and the
\* new data is the returned list set
C9_DeletionPath ==
    (last.op = "tick" /\ last.raised = "none" /\ last.deleted # <<>>) =>
        LET D == Range(last.deleted)
            withEntity == SeqFilter(last.deleted, last.prevReg)
        IN /\ Len(last.removed) = Len(withEntity)
           /\ \A i \in 1..Len(withEntity) : last.removed[i] = EntityIdOf(withEntity[i])
           /\ DOMAIN registry = last.prevReg \ D
           /\ config.lists_to_sync =
                  SeqFilter(last.prevConfig.lists_to_sync,
                            Range(last.prevConfig.lists_to_sync) \ D)
           /\ config = [last.prevConfig EXCEPT !.lists_to_sync = config.lists_to_sync]
           /\ data = [isNone |-> FALSE, lists |-> last.lists]

\* a deletion of two lists, one with an entity and one without
C9_Witness ==
    /\ last.op = "tick"
    /\ last.raised = "none"
    /\ last.removed # <<>>
    /\ Range(last.deleted) \ last.prevReg # {}
    /\ config.lists_to_sync # <<>>

\* C10: when the removal of the entity of a disappeared list raises, the
\* configuration is not updated (lists_to_sync still holds the disappeared ids)
\* and the coordinator keeps its previous data
C10_RemovalRaisedKeepsConfig ==
    (last.op = "tick" /\ last.raised = "remove") =>
        /\ config = last.prevConfig
        /\ Range(last.deleted) \subseteq Range(config.lists_to_sync)
        /\ data = last.prevData

\* a tick in which the removal raised
C10_Witness ==
    /\ last.op = "tick"
    /\ last.raised = "remove"
    /\ last.deleted # <<>>

----------------------------------------------------------------------------
(* Properties of the to-do entity's operations *)

EntityRefreshing == probe.fn = "entity" /\ probe.pc \in {"in_tick", "done"}

\* C23: every entity operation (create, update, delete items) requests exactly
\* one coordinator refresh after its mutation attempts (one attempt, or one per
\* uid of a delete), whether they succeeded or raised, and never propagates a
\* mutation's exception
C23_OneRefreshAfterMutation ==
    probe.fn = "entity" =>
        /\ probe.pc # "aborted"
        /\ ~probe.propagated
        /\ probe.pc \in {"idle", "refresh"} => probe.refreshes = 0
        /\ EntityRefreshing =>
              /\ probe.refreshes = 1
              /\ Len(probe.attempts) = probe.expected

\* a delete of two items whose first attempt raised, its refresh under way
C23_Witness ==
    /\ EntityRefreshing
    /\ probe.kind = "delete"
    /\ probe.attempts = <<TRUE, FALSE>>
    /\ probe.refreshes = 1

\* C25: no two sync passes overlap in time
C25_NoOverlappingPasses ==
    probe.fn = "entity" => Cardinality(probe.running) <= 1

----------------------------------------------------------------------------
(* Properties of the manual sync service *)

\* C24: a manual sync request that arrives fewer than 55 seconds after the
\* last successful tick starts no refresh and queues none, logging a warning;
\* a request that arrives 55 seconds or more after it starts exactly one refresh
C24_ManualSyncDebounced ==
    (probe.fn = "manual" /\ probe.requested) =>
        /\ probe.pending = 0
        /\ probe.elapsed < 55 => (probe.refreshes = 0 /\ probe.warned)
        /\ probe.elapsed >= 55 => (probe.refreshes = 1 /\ ~probe.warned)

\* a request 54 seconds after the last successful tick
C24_Witness ==
    /\ probe.fn = "manual"
    /\ probe.requested
    /\ probe.elapsed = 54
    /\ probe.refreshes = 0
    /\ probe.now > 54

----------------------------------------------------------------------------
(* Properties of the API's authentication *)

\* C26: a guarded operation (create, update or delete an item, fetch_all_lists,
\* async_sync_data) called while the API is not authenticated raises, calls the
\* Keep client not at all, and leaves the client's lists, the server and the
\* last-known-good list set as they were
C26_UnauthenticatedCallRaises ==
    (probe.fn = "guard" /\ probe.done /\ ~authenticated) =>
        /\ probe.raised
        /\ probe.calls = <<>>
        /\ World = probe.before

\* async_sync_data called unauthenticated on an account with a list whose items
\* a pass would rewrite
C26_Witness ==
    /\ probe.fn = "guard"
    /\ probe.done
    /\ ~authenticated
    /\ probe.op = "async_sync_data"
    /\ probe.raised
    /\ config.list_item_case = "upper"
    /\ \E l \in DOMAIN keepNodes : CaseWouldChange(heap[keepNodes[l]].items, "upper")

\* the saved-session resume of the call succeeds; it ends with an exception
\* that is not a login failure; the token login would succeed
ResumeSucceeds(sc) ==
    sc.saved /\ (sc.resume = "ok" \/ (sc.resume = "resync" /\ sc.again = "ok"))
ResumeBreaks(sc) ==
    sc.saved /\ (sc.resume = "error" \/ (sc.resume = "resync" /\ sc.again = "error"))
TokenSucceeds(sc) ==
    sc.creds /\ (sc.oauth => sc.exchange) /\ sc.login = "ok"

\* C27: authenticate() tries the saved-session resume first and the token login
\* only if the resume did not succeed; it returns true iff one of the two
\* succeeded; a login failure (LoginException, missing credentials, a failed
\* token exchange) yields false and never an exception; and the API is marked
\* authenticated exactly when the call returns true
C27_AuthenticateOrderAndResult ==
    (probe.fn = "auth" /\ probe.done) =>
        /\ probe.steps[1] = "resume"
        /\ Len(probe.steps) = 2 =>
              (probe.steps[2] = "token" /\ ~ResumeSucceeds(probe.sc))
        /\ (~ResumeSucceeds(probe.sc) /\ ~ResumeBreaks(probe.sc)) => Len(probe.steps) = 2
        /\ probe.result = "true" <=>
              (ResumeSucceeds(probe.sc)
               \/ (~ResumeBreaks(probe.sc) /\ TokenSucceeds(probe.sc)))
        /\ probe.result = "raised" => ResumeBreaks(probe.sc)
        /\ authenticated <=> probe.result = "true"

\* the resume fails with a login failure, as does the token login: false
C27_Witness ==
    /\ probe.fn = "auth"
    /\ probe.done
    /\ probe.sc.saved
    /\ probe.sc.resume = "login"
    /\ probe.sc.creds
    /\ probe.sc.login = "login"
    /\ probe.result = "false"
    /\ probe.steps = <<"resume", "token">>
    /\ ~authenticated

----------------------------------------------------------------------------
(* Properties of the new-item events *)

\* the ids of the unchecked items of a list object
UncheckedIds(obj) == {obj.items[i].id : i \in {j \in 1..Len(obj.items) : ~obj.items[j].checked}}

\* the list object with handle h once the step is over (an object dropped
\* during the step was not changed by it)
ObjectAfter(h) == IF h \in DOMAIN heap' THEN heap'[h] ELSE heap[h]

\* the events of the tick that come from list l
EventsOf(obs, l) == {k \in 1..Len(obs.events) : obs.eventLists[k] = l}

NewItemEventsWhenUnregistered ==
    last'.op = "tick" =>
        /\ last'.raised = "none"
        /\ \A n \in 1..Len(data.lists) :
              LET h == data.lists[n]
                  l == h[1]
                  new == UncheckedIds(ObjectAfter(h)) \ UncheckedIds(heap[h])
              IN l \notin DOMAIN registry =>
                    /\ Cardinality(EventsOf(last', l)) = Cardinality(new)
                    /\ \A k \in EventsOf(last', l) :
                          /\ last'.events[k].entity_id = NoEntityId
                          /\ \E i \in 1..Len(ObjectAfter(h).items) :
                                /\ ObjectAfter(h).items[i].id \in new
                                /\ ObjectAfter(h).items[i].text = last'.events[k].item

\* C28: in a tick in which no collaborator raises, every item new in a list
\* that has no registered entity produces exactly one new-item event, whose
\* entity id is None, and the tick completes without exception
C28_UnregisteredListStillNotifies == [][NewItemEventsWhenUnregistered]_vars

\* a tick has fired two events for a list without a registered entity
C28_Witness ==
    /\ last.op = "tick"
    /\ last.raised = "none"
    /\ \E l \in TwoLists :
          /\ l \notin last.prevReg
          /\ Cardinality(EventsOf(last, l)) = 2
          /\ \A k \in EventsOf(last, l) : last.events[k].entity_id = NoEntityId

----------------------------------------------------------------------------
(* Properties of the deletion report *)

\* the list ids a tick returned
ReturnedIds(obs) == {obs.lists[k][1] : k \in 1..Len(obs.lists)}

DeletionReportedOnce ==
    \A x \in ListIds :
        \* the tick that reports x and completes drops x from the configuration
        \* and leaves no entity of x
        /\ (last'.op = "tick" /\ last'.raised = "none" /\ x \in Range(last'.deleted))
              => (x \notin Range(config'.lists_to_sync) /\ x \notin DOMAIN registry')
        \* a list that is not configured stays so, is neither requested,
        \* returned nor reported by a tick, and gets no entity
        /\ x \notin Range(config.lists_to_sync) =>
              /\ x \notin Range(config'.lists_to_sync)
              /\ last'.op = "tick" =>
                    /\ x \notin Range(last'.prevConfig.lists_to_sync)
                    /\ x \notin Range(last'.deleted)
                    /\ x \notin ReturnedIds(last')
              /\ x \notin DOMAIN registry => x \notin DOMAIN registry'

\* C29: a remote list deletion is reported once: once a tick has reported list
\* x as disappeared and completed without exception, no later tick requests x
\* from the Sync Engine or reports x again (the warning is logged only for a
\* non-empty disappeared list), and no entity of x is registered
C29_DeletionReportedOnce == [][DeletionReportedOnce]_vars

\* a tick that ran after the deletion of a list had been reported, and that
\* reports another list
C29_Witness ==
    /\ last.op = "tick"
    /\ last.raised = "none"
    /\ last.deleted # <<>>
    /\ \E x \in ListIds :
          /\ x \notin Range(last.prevConfig.lists_to_sync)
          /\ x \notin Range(last.deleted)
          /\ x \notin DOMAIN remote
          /\ x \notin DOMAIN registry
    /\ \E y \in Range(last.deleted) : y \in last.prevReg

----------------------------------------------------------------------------
(* Properties of the entity's to-do view *)

\* the positions of the items whose text has a character that is not a space
Shown(items) ==
    {i \in 1..Len(items) : \E j \in 1..Len(items[i].text) : items[i].text[j] # " "}

\* the k-th shown position, in list order
ShownAt(items, k) ==
    CHOOSE i \in Shown(items) : Cardinality({j \in Shown(items) : j <= i}) = k

\* C30: the to-do view holds exactly the items whose text is neither empty nor
\* whitespace only, in list order, each with its item id as uid, its text as
\* summary, and status completed iff the item is checked
C30_ViewShowsNonBlankItems ==
    (probe.fn = "view" /\ probe.done) =>
        /\ Len(probe.out) = Cardinality(Shown(probe.items))
        /\ \A k \in 1..Len(probe.out) :
              LET it == probe.items[ShownAt(probe.items, k)]
              IN /\ probe.out[k].uid = it.id
                 /\ probe.out[k].summary = it.text
                 /\ probe.out[k].status = "completed" <=> it.checked

\* a whitespace-only checked item before an item with text: only the second
\* is shown
C30_Witness ==
    /\ probe.fn = "view"
    /\ probe.done
    /\ Len(probe.items) = 2
    /\ probe.items[1].text = <<" ", " ">>
    /\ probe.items[1].checked
    /\ probe.items[2].text = <<" ", "b", " ">>
    /\ Len(probe.out) = 1
    /\ probe.out[1].uid = 2

----------------------------------------------------------------------------
(* Properties of a tick that ends in an exception *)

\* a step that is a tick that raised leaves the data, the configuration and
\* the entity registry as they were
RaisedTickChangesNothing ==
    (last'.op = "tick" /\ last'.raised # "none") =>
        /\ data' = data
        /\ config' = config
        /\ registry' = registry

\* C31: a tick that ends in an exception is a no-op: the coordinator's data,
\* the configuration and the entity registry (registered entities and their
\* names) equal their values before the tick
C31_RaisedTickIsNoOp == [][RaisedTickChangesNothing]_vars

\* C32: one failure policy on every code path that runs a tick: an exception
\* during a tick is swallowed and the previous data is kept, and no update
\* path re-raises it to the owning scheduler as an 'update failed' error
C32_OneFailurePolicy ==
    (probe.fn = "policy" /\ probe.raised) =>
        /\ ~probe.update_failed
        /\ data = probe.prevData

----------------------------------------------------------------------------
(* Properties of the new-item events over a sequence of ticks *)

\* C33: no remotely added item is missed: every unchecked item that appears
\* remotely in a list already held in the coordinator's data has a new-item
\* event fired for it in some tick, even when the tick whose fetch brought it
\* in ended in an exception after the fetch.  Checked in runs where items are
\* only added and lists stay selected, as: once a tick has completed without
\* exception and without falling back, each held list has had one event per
\* unchecked item it gained since it entered the data (from then on the before
\* snapshot of every tick holds the item, so no later tick fires it)
C33_NoAddedItemMissed ==
    (probe.fn = "missed" /\ last.op = "tick" /\ last.raised = "none"
     /\ last.failed = "no") =>
        \A h \in Range(data.lists) :
            UncheckedCount(heap[h]) <= probe.baseline[heap[h].id] + probe.fired[heap[h].id]

\* C34: while an item stays unchecked in a list that stays in the
\* coordinator's data, at most one new-item event is fired for it over any
\* sequence of ticks: no tick fires an event for an item that an earlier tick
\* announced and that has stayed unchecked since, nor two events for one item
C34_AtMostOneEventPerItem ==
    probe.fn = "once" =>
        /\ \A k \in 1..Len(probe.fired) : probe.fired[k] \notin probe.before
        /\ \A j, k \in 1..Len(probe.fired) : probe.fired[j] = probe.fired[k] => j = k

\* a tick in which nothing raised or failed ran while an announced item was
\* still unchecked, and fired nothing
C34_Witness ==
    /\ probe.fn = "once"
    /\ last.op = "tick"
    /\ last.raised = "none"
    /\ last.failed = "no"
    /\ probe.before # {}
    /\ probe.announced = probe.before
    /\ probe.fired = <<>>
    /\ \E x \in probe.before : ~remote[x[1]].items[x[2]].checked

----------------------------------------------------------------------------
(* Properties of the entity's create operation and its refresh *)

\* C35: an item created through the entity's create operation produces no
\* new-item event in the refresh that follows it; when coordinator.data holds
\* the client's object of the list, the item is in the before snapshot of
\* that refresh
C35_CreatedItemNotAnnounced ==
    (probe.fn = "create" /\ probe.pc = "refreshed" /\ probe.item # NoItem) =>
        /\ \A k \in 1..Len(probe.fired) : probe.fired[k] # probe.item
        /\ probe.current => probe.inBefore

\* the refresh after a create that succeeded has run without raising or
\* falling back, with the item in its before snapshot, and the list holds it
C35_Witness ==
    /\ probe.fn = "create"
    /\ probe.pc = "refreshed"
    /\ probe.item # NoItem
    /\ probe.inBefore
    /\ last.op = "tick"
    /\ last.raised = "none"
    /\ last.failed = "no"
    /\ \E h \in Range(data.lists) :
          /\ heap[h].id = probe.item[1]
          /\ probe.item[2] \in UncheckedIds(heap[h])

----------------------------------------------------------------------------
(* Properties of a sorting pass *)

\* the items are in case-insensitive ascending order of their text
AscendingNoCase(items) ==
    \A i, j \in 1..Len(items) :
        i < j => StrLeq(StrLower(items[i].text), StrLower(items[j].text))

\* the item ids of a sequence of items, as a bag
IdBag(items) ==
    [x \in {items[i].id : i \in 1..Len(items)} |->
        Cardinality({i \in 1..Len(items) : items[i].id = x})]

\* C36: after an async_sync_data pass with sorting enabled that does not
\* fail, the unchecked items of every returned list are in case-insensitive
\* ascending order of their (case-transformed) text, and every returned list
\* holds the items it held on the account before the pass, none added or removed
C36_SortedPassKeepsItems ==
    (probe.fn = "sync" /\ probe.done /\ ~probe.failed /\ config.list_auto_sort) =>
        \A h \in Range(lastSynced) :
            /\ AscendingNoCase(Unchecked(heap[h].items))
            /\ IdBag(heap[h].items) = IdBag(probe.account[heap[h].id].items)

\* a sorting pass that also changes the case has returned a list whose
\* unchecked items were out of order on the account
C36_Witness ==
    /\ probe.fn = "sync"
    /\ probe.done
    /\ ~probe.failed
    /\ config.list_auto_sort
    /\ config.list_item_case = "upper"
    /\ \E h \in Range(lastSynced) :
          /\ heap[h].id = "L1"
          /\ Len(heap[h].items) = MaxItems
          /\ ~AscendingNoCase(Unchecked(probe.account["L1"].items))

----------------------------------------------------------------------------
(* Properties of the lists a pass returns *)

\* C37: every list returned by async_sync_data has an id that is in the
\* lists_to_sync argument of that same call, including when the call falls
\* back to the cached list set of an earlier call made with another argument
C37_ReturnedListsWereRequested ==
    last.op = "tick" =>
        \A h \in Range(last.lists) : h[1] \in Range(last.prevConfig.lists_to_sync)

----------------------------------------------------------------------------
(* Properties of the entity's delete operation *)

\* C38: when several item ids are deleted in one entity operation, a failure
\* to delete one id does not prevent the attempts for the remaining ids: every
\* id is attempted exactly once, in the given order, and the single refresh is
\* requested after the last attempt
C38_EveryUidAttemptedInOrder ==
    (probe.fn = "delete" /\ probe.done) =>
        /\ Len(probe.log) = Len(probe.uids) + 1
        /\ \A k \in 1..Len(probe.uids) :
              /\ probe.log[k].call = "delete"
              /\ probe.log[k].uid = probe.uids[k]
        /\ probe.log[Len(probe.log)].call = "refresh"

\* the delete of the first of two items has raised and the second item has
\* been deleted
C38_Witness ==
    /\ probe.fn = "delete"
    /\ probe.done
    /\ probe.uids = <<1, 2>>
    /\ Len(probe.items) = 2
    /\ probe.log[1].raised
    /\ ~probe.log[2].raised
    /\ {heap[keepNodes["L1"]].items[i].id : i \in 1..Len(heap[keepNodes["L1"]].items)} = {1}

----------------------------------------------------------------------------
(* Properties of the API's update-item operation *)

\* the item of the call exists: its list is held and has an item with its id
UpdateTargetExists ==
    /\ probe.list_id \in DOMAIN keepNodes
    /\ \E i \in 1..Len(probe.before[keepNodes[probe.list_id]].items) :
          probe.before[keepNodes[probe.list_id]].items[i].id = probe.item_id

\* C39: async_update_todo_item changes only the text and the checked flag of
\* the item with the given id in the given list: every other item of that
\* list and every other list are unchanged, and when the list or the item
\* does not exist nothing is changed and no error is raised
C39_UpdateChangesOnlyItsItem ==
    (probe.fn = "update" /\ probe.done) =>
        /\ ~probe.raised
        /\ remote = probe.server
        /\ DOMAIN heap = DOMAIN probe.before
        /\ \A h \in DOMAIN heap :
              /\ heap[h].id = probe.before[h].id
              /\ heap[h].title = probe.before[h].title
              /\ Len(heap[h].items) = Len(probe.before[h].items)
              /\ \A i \in 1..Len(heap[h].items) :
                    IF h[1] = probe.list_id /\ probe.before[h].items[i].id = probe.item_id
                    THEN /\ heap[h].items[i].id = probe.item_id
                         /\ heap[h].items[i].text = probe.new_text
                         /\ heap[h].items[i].checked = probe.checked
                    ELSE heap[h].items[i] = probe.before[h].items[i]
        /\ ~UpdateTargetExists => heap = probe.before

\* the second of two items of L1 has been given a new text and checked, next
\* to another list that holds an item
C39_Witness ==
    /\ probe.fn = "update"
    /\ probe.done
    /\ probe.list_id = "L1"
    /\ probe.item_id = 2
    /\ probe.checked
    /\ UpdateTargetExists
    /\ "L2" \in DOMAIN keepNodes
    /\ heap[keepNodes["L2"]].items # <<>>
    /\ heap[keepNodes["L1"]].items[2].text = probe.new_text
    /\ probe.before[keepNodes["L1"]].items[2].text # probe.new_text
    /\ ~probe.before[keepNodes["L1"]].items[1].checked

----------------------------------------------------------------------------
(* Properties of the retry wrapper for any max_retries *)

\* C40: for every max_retries >= 0 the retry wrapper calls the wrapped
\* function at least once before it returns: its outcome is a value returned
\* by the wrapped function or an exception raised by it
C40_WrapperCallsAtLeastOnce ==
    (probe.fn = "wrapper" /\ probe.done) =>
        /\ probe.calls >= 1
        /\ probe.from \in 1..probe.calls
        /\ probe.raises = probe.outcomes[probe.from].raises
        /\ probe.what = probe.outcomes[probe.from].what

====
